---- MODULE Spec2Model ----
(***************************************************************************)
(* Model of the DBF / SX-cipher utilities of vscode-dbf:                   *)
(*   - dbfHandler  (readDbfMetadata, setDbfFirstByte, getDbfDataSection,   *)
(*                  setDbfDataSection)                                      *)
(*   - sxcrypt     (hb_sxInitSeed, hb_sxNextSeed, hb_sxEnCrypt,            *)
(*                  hb_sxDeCrypt, createKeyBytes)                          *)
(*   - dbfProcess  (processDbfFile and its two module-level variables)     *)
(*   - dbfHarbour  (CHECA_HEADER_DBF, PROCESSA_CAMPOS_DBF, OBTEM_CODE_PAGE, *)
(*                  LER_REGISTRO_DBF, LER_TODOS_REGISTROS_DBF)              *)
(*   - detecta_company (HarbourSystemIntegration) over CompanyDetector     *)
(*                                                                         *)
(* Representation.  A byte buffer is a sequence of numbers 0..255; the     *)
(* byte at JavaScript offset k is element k+1.  An unsigned 32-bit value   *)
(* is the pair <<hi, lo>> of its 16-bit halves (the model checker's        *)
(* integers are 32-bit signed, so a u32 does not fit in one of them).      *)
(***************************************************************************)
EXTENDS Integers, Sequences, FiniteSets, TLC

VARIABLES
    processedDataBytes,  \* dbfProcess.ts:19  module-level, shared by all calls
    statusMessage,       \* dbfProcess.ts:20  module-level, shared by all calls
    task,                \* the processDbfFile invocations (one per slot)
    cipher,              \* one run of hb_sxEnCrypt / hb_sxDeCrypt, byte by byte
    parse,               \* one buffer given to the two header parsers
    fcall,               \* one call of a function on its own: arguments, results
    harbour              \* one HarbourSystemIntegration object, its calls and timer

vars == <<processedDataBytes, statusMessage, task, cipher, parse, fcall, harbour>>

(***************************************************************************)
(* Bounds of the model                                                     *)
(***************************************************************************)
\* longest byte run given to the cipher on its own
MaxLen == 3
\* how many processDbfFile invocations a behaviour makes
MaxCalls == 2
\* most field descriptors in a header given to the parsers
MaxDescriptors == 2
\* most records a file given to the payload functions declares or holds
MaxRecords == 2
\* longest key text (in characters) and key list given to createKeyBytes
MaxKeyLen == 10
\* longest of the long byte runs given to the cipher (keyIdx wraps after 7 bytes)
MaxRun == 15
\* how many polling ticks of the company monitoring can be in flight at once
MaxTicks == 2

(***************************************************************************)
(* JavaScript's undefined, and a value that is not undefined               *)
(***************************************************************************)
Undefined == [defined |-> FALSE]
Defined(v) == [defined |-> TRUE, value |-> v]

\* no HarbourSystemIntegration object has been constructed
NoHarbour == [pc |-> "idle"]

(***************************************************************************)
(* Fixed-width arithmetic                                                  *)
(***************************************************************************)
Pow2(n) == 2 ^ n

Min(a, b) == IF a < b THEN a ELSE b

\* JavaScript's a | b on non-negative operands below 2^31
RECURSIVE BitOr(_, _)
BitOr(a, b) ==
    IF a = 0 THEN b
    ELSE IF b = 0 THEN a
    ELSE (IF a % 2 = 1 \/ b % 2 = 1 THEN 1 ELSE 0) + 2 * BitOr(a \div 2, b \div 2)

\* (a * b) >>> 0 for a, b < 2^16, as <<hi, lo>>.  The product is formed
\* from b's two bytes so that no intermediate value exceeds 2^31.
MulU32(a, b) ==
    LET x  == a * (b % 256)
        y  == a * (b \div 256)
        t  == x + (y % 256) * 256
        hi == (y \div 256) + (t \div 65536)
    IN  <<hi % 65536, t % 65536>>

\* sxcrypt: RND_MUL1, RND_MUL2
RND_MUL1 == 56941
RND_MUL2 == 10125

(***************************************************************************)
(* sxcrypt                                                                 *)
(***************************************************************************)
\* getUint16LE(buffer, offset): the little-endian u16 at buffer[offset..offset+1]
getUint16LE(buffer, offset) == buffer[offset + 1] + 256 * buffer[offset + 2]

\* one iteration of the loop of hb_sxInitSeed, ulSeed as <<hi, lo>>:
\*   part1 = ulSeed >>> 16;  part2 = (ulSeed << 16) >>> 0
\*   ulSeed = ((part1 | part2) >>> 0 * 17) >>> 0     -- `>>> 0 * 17` is `>>> 0`
\*   ulSeed = (ulSeed | getUint16LE(keyVal, i)) >>> 0
InitSeedIter(ulSeed, keyVal, i) ==
    LET part1 == ulSeed[1]
        part2 == <<ulSeed[2], 0>>
        rot   == <<part2[1], BitOr(part2[2], part1)>>
    IN  <<rot[1], BitOr(rot[2], getUint16LE(keyVal, i))>>

RECURSIVE InitSeedLoop(_, _, _)
InitSeedLoop(ulSeed, keyVal, i) ==
    IF i >= 7 THEN ulSeed
    ELSE InitSeedLoop(InitSeedIter(ulSeed, keyVal, i), keyVal, i + 1)

\* hb_sxInitSeed without `ulSeed |= 1`
hb_sxInitSeedKeepsBit0(keyVal) ==
    LET ulSeed == InitSeedLoop(<<0, 0>>, keyVal, 0)
        uiKey  == ulSeed[2]
    IN  [ulSeed |-> <<ulSeed[2], ulSeed[1]>>, uiKey |-> uiKey]

hb_sxInitSeed(keyVal) ==
    LET s0     == InitSeedLoop(<<0, 0>>, keyVal, 0)
        ulSeed == <<s0[1], BitOr(s0[2], 1)>>
        uiKey  == ulSeed[2]
    IN  [ulSeed |-> <<ulSeed[2], ulSeed[1]>>, uiKey |-> uiKey]

\* hb_sxNextSeed: the new seed and the new uiKey (uiKeyRef.value)
hb_sxNextSeed(ulSeed, keyVal, keyIdx) ==
    LET uiSeedLo0 == ulSeed[2]
        ulTemp1a  == MulU32(RND_MUL1, uiSeedLo0)
        ulTemp2   == BitOr(RND_MUL2 * uiSeedLo0, ulTemp1a[1])
        uiSeedLo  == ulTemp1a[2]
        ulTemp1b  == MulU32(RND_MUL1, ulSeed[1])
        uiSeedHi  == BitOr(ulTemp1b[2], ulTemp2 % 65536)
        uiSeedHi1 == BitOr(uiSeedHi, 1)
    IN  [ulSeed |-> <<uiSeedHi, uiSeedLo>>,
         uiKey  |-> BitOr(uiSeedHi1, getUint16LE(keyVal, keyIdx)) % 65536]

\* body of the loop of hb_sxEnCrypt for one byte
EnCryptByte(ucChar, uiKey) ==
    LET ucShft == uiKey % 8
        rot    == BitOr(ucChar \div Pow2(ucShft), ucChar * Pow2(8 - ucShft)) % 256
    IN  (rot + (uiKey % 256)) % 256

\* hb_sxDeCrypt's byte with the rotation of hb_sxEnCrypt (to the right)
DeCryptByteRotatesRight(srcChar, uiKey) ==
    LET ucChar == (srcChar - (uiKey % 256)) % 256
        ucShft == uiKey % 8
    IN  BitOr(ucChar \div Pow2(ucShft), ucChar * Pow2(8 - ucShft)) % 256

\* body of the loop of hb_sxDeCrypt for one byte
DeCryptByte(srcChar, uiKey) ==
    LET ucChar == (srcChar - (uiKey % 256)) % 256
        ucShft == uiKey % 8
    IN  BitOr(ucChar * Pow2(ucShft), ucChar \div Pow2(8 - ucShft)) % 256

\* the state of the cipher loop before byte nPos
CipherStart(keyBytes) ==
    [ulSeed |-> hb_sxInitSeed(keyBytes).ulSeed,
     uiKey  |-> hb_sxInitSeed(keyBytes).uiKey,
     keyIdx |-> 0]

\* the end of a loop iteration that leaves keyIdx where it was
CipherAdvanceKeepsIndex(st, keyBytes) ==
    LET n == hb_sxNextSeed(st.ulSeed, keyBytes, st.keyIdx)
    IN  [ulSeed |-> n.ulSeed, uiKey |-> n.uiKey, keyIdx |-> st.keyIdx]

\* the end of one loop iteration: hb_sxNextSeed, then keyIdx = (keyIdx + 1) % 7
CipherAdvance(st, keyBytes) ==
    LET n == hb_sxNextSeed(st.ulSeed, keyBytes, st.keyIdx)
    IN  [ulSeed |-> n.ulSeed, uiKey |-> n.uiKey, keyIdx |-> (st.keyIdx + 1) % 7]

RECURSIVE EnCryptFrom(_, _, _, _)
EnCryptFrom(srcBytes, keyBytes, nPos, st) ==
    IF nPos > Len(srcBytes) THEN <<>>
    ELSE <<EnCryptByte(srcBytes[nPos], st.uiKey)>>
         \o EnCryptFrom(srcBytes, keyBytes, nPos + 1, CipherAdvance(st, keyBytes))

RECURSIVE DeCryptFrom(_, _, _, _)
DeCryptFrom(srcBytes, keyBytes, nPos, st) ==
    IF nPos > Len(srcBytes) THEN <<>>
    ELSE <<DeCryptByte(srcBytes[nPos], st.uiKey)>>
         \o DeCryptFrom(srcBytes, keyBytes, nPos + 1, CipherAdvance(st, keyBytes))

hb_sxEnCrypt(srcBytes, keyBytes) ==
    EnCryptFrom(srcBytes, keyBytes, 1, CipherStart(keyBytes))

hb_sxDeCrypt(srcBytes, keyBytes) ==
    DeCryptFrom(srcBytes, keyBytes, 1, CipherStart(keyBytes))

\* createKeyBytes' TextEncoder.encode of one code point (a Unicode scalar value)
Utf8(cp) ==
    IF cp \in 55296 .. 57343 THEN <<239, 191, 189>>   \* lone surrogate: U+FFFD
    ELSE IF cp < 128 THEN <<cp>>
    ELSE IF cp < 2048 THEN <<192 + (cp \div 64), 128 + (cp % 64)>>
    ELSE IF cp < 65536 THEN
        <<224 + (cp \div 4096), 128 + ((cp \div 64) % 64), 128 + (cp % 64)>>
    ELSE <<240 + (cp \div 262144), 128 + ((cp \div 4096) % 64),
           128 + ((cp \div 64) % 64), 128 + (cp % 64)>>

RECURSIVE TextEncode(_)
TextEncode(chars) ==
    IF chars = <<>> THEN <<>> ELSE Utf8(Head(chars)) \o TextEncode(Tail(chars))

\* createKeyBytes that fills seven bytes only
createKeyBytesSevenBytes(keyInput) ==
    LET encoded == IF keyInput.kind = "string" THEN TextEncode(keyInput.chars) ELSE <<>>
    IN  [i \in 1 .. 8 |->
            IF keyInput.kind = "string"
            THEN (IF i <= Min(Len(encoded), 7) THEN encoded[i] ELSE 0)
            ELSE IF keyInput.kind = "array"
            THEN (IF i <= Min(Len(keyInput.elems), 7) THEN keyInput.elems[i] % 256 ELSE 0)
            ELSE 0]

\* createKeyBytes(keyInput): keyInput is [kind |-> "string", chars |-> code points]
\* or [kind |-> "array", elems |-> numbers]; anything else leaves the zero key
createKeyBytes(keyInput) ==
    LET encoded == IF keyInput.kind = "string" THEN TextEncode(keyInput.chars) ELSE <<>>
    IN  [i \in 1 .. 8 |->
            IF keyInput.kind = "string"
            THEN (IF i <= Min(Len(encoded), 8) THEN encoded[i] ELSE 0)
            ELSE IF keyInput.kind = "array"
            THEN (IF i <= Min(Len(keyInput.elems), 8) THEN keyInput.elems[i] % 256 ELSE 0)
            ELSE 0]

(***************************************************************************)
(* dbfHandler                                                              *)
(***************************************************************************)
\* DataView.getUint8 / getUint16 / getUint32 (little-endian) at a byte offset;
\* the caller checks the range (an out-of-range read throws RangeError)
getUint8(buffer, off) == buffer[off + 1]
getUint16(buffer, off) == buffer[off + 1] + 256 * buffer[off + 2]
getUint32(buffer, off) ==
    buffer[off + 1] + 256 * buffer[off + 2] + 65536 * buffer[off + 3]
        + 16777216 * buffer[off + 4]

\* String.prototype.trim on the decoded name: white space off both ends
IsSpace(c) == c \in {9, 10, 11, 12, 13, 32, 160}

RECURSIVE TrimLeft(_)
TrimLeft(str) ==
    IF str # <<>> /\ IsSpace(Head(str)) THEN TrimLeft(Tail(str)) ELSE str

RECURSIVE TrimRight(_)
TrimRight(str) ==
    IF str # <<>> /\ IsSpace(str[Len(str)])
    THEN TrimRight(SubSeq(str, 1, Len(str) - 1)) ELSE str

Trim(str) == TrimRight(TrimLeft(str))

\* .replace(/\0/g, ''): the name without its NUL bytes
RECURSIVE StripNul(_)
StripNul(str) ==
    IF str = <<>> THEN <<>>
    ELSE IF Head(str) = 0 THEN StripNul(Tail(str))
    ELSE <<Head(str)>> \o StripNul(Tail(str))

\* new TextDecoder('ascii').decode(bytes): the label 'ascii' names the
\* windows-1252 decoder, which maps 0x80..0x9F to the code points below and
\* every other byte to the code point of the same number
Windows1252(b) ==
    IF b \in 128 .. 159
    THEN <<8364, 129, 8218, 402, 8222, 8230, 8224, 8225, 710, 8240, 352, 8249, 338, 141,
           381, 143, 144, 8216, 8217, 8220, 8221, 8226, 8211, 8212, 732, 8482, 353, 8250,
           339, 157, 382, 376>>[b - 127]
    ELSE b

TextDecode(bytes) == [i \in 1 .. Len(bytes) |-> Windows1252(bytes[i])]

\* the while loop of readDbfMetadata from descriptor offset `offset` on.
\* The reads of one iteration reach byte offset + 17; one past the end of the
\* buffer throws.
RECURSIVE FieldLoop(_, _, _, _, _)
FieldLoop(buffer, headerLength, offset, currentFieldOffset, fields) ==
    IF ~(offset < headerLength - 1) THEN [threw |-> FALSE, fields |-> fields]
    ELSE IF offset >= Len(buffer) THEN [threw |-> TRUE, fields |-> fields]
    ELSE IF getUint8(buffer, offset) = 13 THEN [threw |-> FALSE, fields |-> fields]
    ELSE IF offset + 18 > Len(buffer) THEN [threw |-> TRUE, fields |-> fields]
    ELSE LET field == [name          |-> Trim(StripNul(TextDecode(SubSeq(buffer, offset + 1,
                                                                          offset + 11)))),
                       type          |-> getUint8(buffer, offset + 11),
                       length        |-> getUint8(buffer, offset + 16),
                       decimalPlaces |-> getUint8(buffer, offset + 17),
                       offset        |-> currentFieldOffset]
         IN  FieldLoop(buffer, headerLength, offset + 32,
                       currentFieldOffset + field.length, Append(fields, field))

NoHeader == [firstByte |-> 0, numRecords |-> 0, headerLength |-> 0, recordLength |-> 0]

\* readDbfMetadata with currentFieldOffset starting at 0
readDbfMetadataOffsetsFromZero(buffer) ==
    IF Len(buffer) < 12 THEN [threw |-> TRUE, header |-> NoHeader, fields |-> <<>>]
    ELSE LET header == [firstByte    |-> getUint8(buffer, 0),
                        numRecords   |-> getUint32(buffer, 4),
                        headerLength |-> getUint16(buffer, 8),
                        recordLength |-> getUint16(buffer, 10)]
             loop   == FieldLoop(buffer, header.headerLength, 32, 0, <<>>)
         IN  [threw |-> loop.threw, header |-> header, fields |-> loop.fields]

\* readDbfMetadata(buffer): threw = TRUE when a DataView / Uint8Array access is
\* out of range (RangeError), else the header and the field list
readDbfMetadata(buffer) ==
    IF Len(buffer) < 12 THEN [threw |-> TRUE, header |-> NoHeader, fields |-> <<>>]
    ELSE LET header == [firstByte    |-> getUint8(buffer, 0),
                        numRecords   |-> getUint32(buffer, 4),
                        headerLength |-> getUint16(buffer, 8),
                        recordLength |-> getUint16(buffer, 10)]
             loop   == FieldLoop(buffer, header.headerLength, 32, 1, <<>>)
         IN  [threw |-> loop.threw, header |-> header, fields |-> loop.fields]

\* setDbfFirstByte(buffer, value): writes in place, returns the same buffer
setDbfFirstByte(buffer, value) == [buffer EXCEPT ![1] = value]

\* getDbfDataSection that takes the 0x0D before the data into the slice
getDbfDataSectionFromTerminator(buffer, headerLength, numRecords, recordLength) ==
    LET dataStart == headerLength - 1
        dataEnd   == dataStart + (numRecords * recordLength)
    IN  SubSeq(buffer, dataStart + 1, Min(dataEnd, Len(buffer)))

\* getDbfDataSection: buffer.slice(dataStart, dataEnd) clamps to the buffer
getDbfDataSection(buffer, headerLength, numRecords, recordLength) ==
    LET dataStart == headerLength
        dataEnd   == dataStart + (numRecords * recordLength)
    IN  SubSeq(buffer, dataStart + 1, Min(dataEnd, Len(buffer)))

\* setDbfDataSection that takes the data to start one byte after headerLength
setDbfDataSectionAfterTerminator(originalBuffer, newDataBytes, headerLength) ==
    LET dataStart == headerLength + 1
    IN  [k \in 1 .. Len(originalBuffer) |->
            IF k > dataStart /\ k - dataStart <= Len(newDataBytes)
            THEN newDataBytes[k - dataStart]
            ELSE originalBuffer[k]]

\* setDbfDataSection: newDataBytes copied in place from headerLength on; a
\* typed-array store past the end of the buffer is dropped
setDbfDataSection(originalBuffer, newDataBytes, headerLength) ==
    LET dataStart == headerLength
    IN  [k \in 1 .. Len(originalBuffer) |->
            IF k > dataStart /\ k - dataStart <= Len(newDataBytes)
            THEN newDataBytes[k - dataStart]
            ELSE originalBuffer[k]]

(***************************************************************************)
(* dbfHarbour: CHECA_HEADER_DBF and what it calls                          *)
(***************************************************************************)
\* the while loop of PROCESSA_CAMPOS_DBF from `position` on.  buffer[k] past
\* the end is undefined (never 0x0D); buffer.readUInt8 past the end throws,
\* so an iteration throws unless its reads, up to position + 17, are inside.
RECURSIVE CamposLoop(_, _, _, _, _)
CamposLoop(buffer, headerSize, position, offset, fields) ==
    IF ~(position < headerSize - 1) THEN [threw |-> FALSE, fields |-> fields]
    ELSE IF position < Len(buffer) /\ buffer[position + 1] = 13
    THEN [threw |-> FALSE, fields |-> fields]
    ELSE IF position + 18 > Len(buffer) THEN [threw |-> TRUE, fields |-> fields]
    ELSE LET length == buffer[position + 17]
             field  == [name          |-> Trim(StripNul(SubSeq(buffer, position + 1,
                                                               position + 11))),
                        type          |-> buffer[position + 12],
                        length        |-> length,
                        decimalPlaces |-> buffer[position + 18],
                        offset        |-> offset]
         IN  CamposLoop(buffer, headerSize, position + 32, offset + length,
                        Append(fields, field))

PROCESSA_CAMPOS_DBF(buffer, headerSize) == CamposLoop(buffer, headerSize, 32, 0, <<>>)

VERIFICA_CODE_PAGE(buffer) == Len(buffer) >= 30 /\ buffer[30] # 0

\* codePageMapping of OBTEM_CODE_PAGE, as <<language driver, code page>> pairs
codePageMapping ==
    { <<1, 437>>, <<2, 850>>, <<3, 1252>>, <<4, 10000>>, <<8, 865>>, <<9, 437>>,
      <<10, 850>>, <<11, 437>>, <<13, 437>>, <<14, 850>>, <<15, 437>>, <<16, 850>>,
      <<17, 437>>, <<18, 850>>, <<19, 932>>, <<20, 850>>, <<21, 437>>, <<22, 850>>,
      <<23, 865>>, <<24, 437>>, <<25, 437>>, <<26, 850>>, <<27, 437>>, <<28, 863>>,
      <<29, 850>>, <<31, 852>>, <<34, 852>>, <<35, 852>>, <<36, 860>>, <<37, 850>>,
      <<38, 866>>, <<55, 850>>, <<64, 852>>, <<77, 936>>, <<78, 949>>, <<79, 950>>,
      <<80, 874>>, <<87, 1252>>, <<88, 1252>>, <<89, 1252>>, <<100, 852>>,
      <<101, 866>>, <<102, 865>>, <<103, 861>>, <<106, 737>>, <<107, 857>>,
      <<108, 863>>, <<120, 950>>, <<121, 949>>, <<122, 936>>, <<123, 932>>,
      <<124, 874>>, <<134, 737>>, <<135, 852>>, <<136, 857>>, <<200, 1250>>,
      <<201, 1251>>, <<202, 1254>>, <<203, 1253>>, <<204, 1257>> }

\* OBTEM_CODE_PAGE that takes the byte before the language driver (offset 28)
OBTEM_CODE_PAGE_AtMdxFlag(buffer) ==
    IF Len(buffer) < 30 THEN Undefined
    ELSE LET langDriverId == buffer[29]
             hits         == {e \in codePageMapping : e[1] = langDriverId}
         IN  IF hits = {} THEN Undefined
             ELSE Defined((CHOOSE e \in hits : TRUE)[2])

\* OBTEM_CODE_PAGE(buffer): codePageMapping[langDriverId] || undefined
OBTEM_CODE_PAGE(buffer) ==
    IF Len(buffer) < 30 THEN Undefined
    ELSE LET langDriverId == buffer[30]
             hits         == {e \in codePageMapping : e[1] = langDriverId}
         IN  IF hits = {} THEN Undefined
             ELSE Defined((CHOOSE e \in hits : TRUE)[2])

\* CHECA_HEADER_DBF(buffer): isNull = TRUE for the null it returns on an
\* invalid buffer or on an exception
CHECA_HEADER_DBF(buffer) ==
    IF Len(buffer) < 32 THEN [isNull |-> TRUE]
    ELSE LET version     == buffer[1]
             year        == buffer[2] + (IF buffer[2] < 80 THEN 2000 ELSE 1900)
             month       == buffer[3] - 1
             day         == buffer[4]
             recordCount == getUint32(buffer, 4)
             headerSize  == getUint16(buffer, 8)
             recordSize  == getUint16(buffer, 10)
             campos      == PROCESSA_CAMPOS_DBF(buffer, headerSize)
             hasCodePage == VERIFICA_CODE_PAGE(buffer)
         IN  IF headerSize < 32 \/ recordSize < 1 THEN [isNull |-> TRUE]
             ELSE IF campos.threw THEN [isNull |-> TRUE]
             ELSE [isNull      |-> FALSE,
                   version     |-> version,
                   lastUpdate  |-> [year |-> year, month |-> month, day |-> day],
                   recordCount |-> recordCount,
                   headerSize  |-> headerSize,
                   recordSize  |-> recordSize,
                   fields      |-> campos.fields,
                   hasCodePage |-> hasCodePage,
                   codePage    |-> IF hasCodePage THEN OBTEM_CODE_PAGE(buffer)
                                   ELSE Undefined]

(***************************************************************************)
(* Inputs of the cipher runs                                               *)
(***************************************************************************)
Byte == 0 .. 255

\* 8-byte keys as createKeyBytes returns them
KeySamples ==
    { <<5, 6, 5, 6, 5, 6, 5, 6>>,
      <<0, 0, 0, 0, 0, 0, 0, 0>>,
      <<1, 2, 3, 0, 0, 0, 0, 0>>,
      <<255, 254, 128, 7, 9, 200, 33, 64>> }

\* 0x00, 0x01, 0x1A (EOF), 0x20 (live row), 0x2A (deleted row), 0x80, 0xFF
ByteSamples == {0, 1, 26, 32, 42, 128, 255}

RECURSIVE SeqsUpTo(_, _)
SeqsUpTo(S, n) ==
    IF n = 0 THEN {<<>>}
    ELSE LET shorter == SeqsUpTo(S, n - 1)
         IN  shorter \cup {Append(q, b) : q \in {r \in shorter : Len(r) = n - 1}, b \in S}

\* runs long enough for keyIdx to come back to 0: 7, 8 and MaxRun bytes
LongRuns == { [i \in 1 .. n |-> (37 * i + 11) % 256] : n \in {7, 8, MaxRun} }

\* every run up to MaxLen over the samples, every single byte, the long runs
CipherInputs == SeqsUpTo(ByteSamples, MaxLen) \cup {<<b>> : b \in Byte} \cup LongRuns

(***************************************************************************)
(* A cipher run, one loop iteration per step.  A run is two calls in a     *)
(* row on the same key: `first` on the input, then the opposite transform  *)
(* on what the first call returned.                                        *)
(***************************************************************************)
Opposite(op) == IF op = "enc" THEN "dec" ELSE "enc"

\* an entry that keeps the seed, key and keyIdx the call before it left behind
CipherCallKeepsState(op, srcBytes, keyBytes, stage, input, mid) ==
    [pc     |-> "loop",
     op     |-> op,
     stage  |-> stage,
     input  |-> input,
     src    |-> srcBytes,
     key    |-> keyBytes,
     dst    |-> <<>>,
     nPos   |-> 1,
     st     |-> IF stage = 1 THEN CipherStart(keyBytes) ELSE cipher.st,
     mid    |-> mid]

\* entry of hb_sxEnCrypt / hb_sxDeCrypt: dstBytes empty, seed and key set up
CipherCall(op, srcBytes, keyBytes, stage, input, mid) ==
    [pc     |-> "loop",
     op     |-> op,
     stage  |-> stage,
     input  |-> input,
     src    |-> srcBytes,
     key    |-> keyBytes,
     dst    |-> <<>>,
     nPos   |-> 1,
     st     |-> CipherStart(keyBytes),
     mid    |-> mid]

CipherIdle ==
    [pc |-> "idle", op |-> "enc", stage |-> 0, input |-> <<>>, src |-> <<>>,
     key |-> <<0, 0, 0, 0, 0, 0, 0, 0>>, dst |-> <<>>, nPos |-> 1,
     st |-> [ulSeed |-> <<0, 0>>, uiKey |-> 0, keyIdx |-> 0], mid |-> <<>>]

\* a loop iteration that stores nothing when the byte it computed is 0x00
CipherLoopStepDropsZero ==
    /\ cipher.pc = "loop"
    /\ cipher.nPos <= Len(cipher.src)
    /\ LET c == cipher.src[cipher.nPos]
           o == IF cipher.op = "enc" THEN EnCryptByte(c, cipher.st.uiKey)
                                     ELSE DeCryptByte(c, cipher.st.uiKey)
       IN  cipher' = [cipher EXCEPT !.dst  = IF o = 0 THEN @ ELSE Append(@, o),
                                    !.nPos = @ + 1,
                                    !.st   = CipherAdvance(@, cipher.key)]
    /\ UNCHANGED <<processedDataBytes, statusMessage, task, parse, fcall, harbour>>

\* a loop iteration whose next seed takes in the byte it has just read
CipherLoopStepFeedsBack ==
    /\ cipher.pc = "loop"
    /\ cipher.nPos <= Len(cipher.src)
    /\ LET c == cipher.src[cipher.nPos]
           o == IF cipher.op = "enc" THEN EnCryptByte(c, cipher.st.uiKey)
                                     ELSE DeCryptByte(c, cipher.st.uiKey)
           fed == [cipher.st EXCEPT !.ulSeed = <<@[1], (@[2] + c) % 65536>>]
       IN  cipher' = [cipher EXCEPT !.dst  = Append(@, o),
                                    !.nPos = @ + 1,
                                    !.st   = CipherAdvance(fed, cipher.key)]
    /\ UNCHANGED <<processedDataBytes, statusMessage, task, parse, fcall, harbour>>

\* for (nPos < nLen): transform srcBytes[nPos], step the keystream
CipherLoopStep ==
    /\ cipher.pc = "loop"
    /\ cipher.nPos <= Len(cipher.src)
    /\ LET c == cipher.src[cipher.nPos]
           o == IF cipher.op = "enc" THEN EnCryptByte(c, cipher.st.uiKey)
                                     ELSE DeCryptByte(c, cipher.st.uiKey)
       IN  cipher' = [cipher EXCEPT !.dst  = Append(@, o),
                                    !.nPos = @ + 1,
                                    !.st   = CipherAdvance(@, cipher.key)]
    /\ UNCHANGED <<processedDataBytes, statusMessage, task, parse, fcall, harbour>>

\* return dstBytes of the first call; the caller feeds it to the opposite call
CipherReturnFirst ==
    /\ cipher.pc = "loop"
    /\ cipher.stage = 1
    /\ cipher.nPos > Len(cipher.src)
    /\ cipher' = CipherCall(Opposite(cipher.op), cipher.dst, cipher.key, 2,
                            cipher.input, cipher.dst)
    /\ UNCHANGED <<processedDataBytes, statusMessage, task, parse, fcall, harbour>>

\* return dstBytes of the second call
CipherReturnSecond ==
    /\ cipher.pc = "loop"
    /\ cipher.stage = 2
    /\ cipher.nPos > Len(cipher.src)
    /\ cipher' = [cipher EXCEPT !.pc = "done"]
    /\ UNCHANGED <<processedDataBytes, statusMessage, task, parse, fcall, harbour>>

InitCipher ==
    /\ processedDataBytes = Undefined
    /\ statusMessage = Undefined
    /\ harbour = NoHarbour
    /\ task = <<>>
    /\ parse = [pc |-> "idle"]
    /\ fcall = [pc |-> "idle"]
    /\ \E op \in {"enc", "dec"}, b \in CipherInputs, k \in KeySamples :
          cipher = CipherCall(op, b, k, 1, b, <<>>)

\* the first call is made again, on the same input and key
CipherRepeat ==
    /\ cipher.pc = "done"
    /\ cipher' = CipherCall(Opposite(cipher.op), cipher.input, cipher.key, 3,
                            cipher.input, cipher.mid)
    /\ UNCHANGED <<processedDataBytes, statusMessage, task, parse, fcall, harbour>>

\* return dstBytes of the repeated call
CipherReturnRepeat ==
    /\ cipher.pc = "loop"
    /\ cipher.stage = 3
    /\ cipher.nPos > Len(cipher.src)
    /\ cipher' = [cipher EXCEPT !.pc = "repeated"]
    /\ UNCHANGED <<processedDataBytes, statusMessage, task, parse, fcall, harbour>>

NextCipher ==
    \/ CipherLoopStep
    \/ CipherReturnFirst
    \/ CipherReturnSecond
    \/ CipherRepeat
    \/ CipherReturnRepeat

SpecCipher == InitCipher /\ [][NextCipher]_vars

\* C1: for every key K and byte run B, hb_sxDeCrypt(hb_sxEnCrypt(B, K), K) = B
\* and hb_sxEnCrypt(hb_sxDeCrypt(B, K), K) = B: when the second of the two
\* opposite calls has returned, its output is the input of the first, and
\* the same holds of the two transforms taken as functions.
C1_RoundTrip ==
    cipher.pc = "done" =>
        /\ cipher.dst = cipher.input
        /\ hb_sxDeCrypt(hb_sxEnCrypt(cipher.input, cipher.key), cipher.key) = cipher.input
        /\ hb_sxEnCrypt(hb_sxDeCrypt(cipher.input, cipher.key), cipher.key) = cipher.input

\* a run of MaxLen bytes went through both calls, and the first call changed it
C1_Witness ==
    /\ cipher.pc = "done"
    /\ Len(cipher.input) = MaxLen
    /\ cipher.mid # cipher.input
    /\ cipher.dst = cipher.input

(***************************************************************************)
(* dbfProcess: processDbfFile                                              *)
(*                                                                         *)
(* An invocation runs in three synchronous segments, separated by its two  *)
(* awaits (the 9 s timer of line 46 and dbf.parse of line 76).  Its local  *)
(* state `loc` holds its ArrayBuffers in `heap` and refers to them by      *)
(* name: "arg" is the caller's buffer, "cur" the copy of line 38.          *)
(***************************************************************************)
\* the module state before any call: both `let`s are declared, not assigned
FreshGlobals == [processedDataBytes |-> Undefined, statusMessage |-> Undefined]

MsgDecrypted == "Dados descriptografados."
MsgEncrypted == "Dados criptografados."
\* " Erro ao parsear dados para exibição."
MsgParseError == " Erro ao parsear dados para exibicao."

\* statusMessage += text, on a string kept as the list of its pieces
StrAppend(msg, text) ==
    IF msg.defined THEN Defined(Append(msg.value, text))
    ELSE Defined(<<"undefined", text>>)

\* no copy: the same buffer is handed back
ArrayBufferAlias(heap, ref, new) == [ref |-> ref, heap |-> heap]

\* ArrayBuffer.prototype.slice(0): a new buffer holding a copy of heap[ref]
ArrayBufferSlice(heap, ref, new) ==
    [ref |-> new, heap |-> [heap EXCEPT ![new] = heap[ref]]]

\* lines 36-46: up to the first await
ProcessEntry(fileBytes, keyData, isDecrypt) ==
    LET keyBytes == createKeyBytes(keyData)
        heap0    == [arg |-> fileBytes, cur |-> <<>>, tmp |-> <<>>]
        copy     == ArrayBufferSlice(heap0, "arg", "cur")
        md       == readDbfMetadata(copy.heap[copy.ref])
        h        == md.header
        base     == [pc |-> "failed", error |-> "RangeError",
                     keyBytes |-> keyBytes, isDecrypt |-> isDecrypt,
                     heap |-> copy.heap, fileBuffer |-> "arg",
                     currentFileBuffer |-> copy.ref,
                     header |-> h, fields |-> md.fields, dataBytes |-> <<>>,
                     records |-> <<>>, result |-> Undefined]
    IN  IF md.threw THEN base
        ELSE [base EXCEPT
                !.pc = "timer", !.error = "",
                !.dataBytes = getDbfDataSection(copy.heap[copy.ref], h.headerLength,
                                                h.numRecords, h.recordLength)]

\* the value processDbfFile resolves to
ReturnValue(loc, records, g) ==
    Defined([fields     |-> loc.fields,
             records    |-> records,
             fileBuffer |-> loc.currentFileBuffer,
             status     |-> g.statusMessage])

\* lines 48-76: from the timer to dbf.parse (decrypt) or to the return (encrypt)
ProcessAfterTimer(loc, g) ==
    LET cur  == loc.currentFileBuffer
        enc  == loc.header.firstByte = 6
        g1   == IF ~enc THEN g
                ELSE IF loc.isDecrypt
                THEN [processedDataBytes |-> Defined(hb_sxDeCrypt(loc.dataBytes, loc.keyBytes)),
                      statusMessage      |-> Defined(<<MsgDecrypted>>)]
                ELSE [processedDataBytes |-> Defined(hb_sxEnCrypt(loc.dataBytes, loc.keyBytes)),
                      statusMessage      |-> Defined(<<MsgEncrypted>>)]
        heap1 == IF ~enc THEN loc.heap
                 ELSE [loc.heap EXCEPT
                         ![cur] = setDbfFirstByte(@, IF loc.isDecrypt THEN 3 ELSE 6)]
    IN  IF ~g1.processedDataBytes.defined
        THEN \* line 64: newDataBytes.byteLength of undefined
             [loc |-> [loc EXCEPT !.pc = "failed", !.error = "TypeError", !.heap = heap1],
              g   |-> g1]
        ELSE LET pdb   == g1.processedDataBytes.value
                 heap2 == [heap1 EXCEPT
                             ![cur] = setDbfDataSection(@, pdb, loc.header.headerLength)]
             IN  IF loc.isDecrypt
                 THEN LET temp  == ArrayBufferSlice(heap2, loc.fileBuffer, "tmp")
                          heap3 == [temp.heap EXCEPT
                                      ![temp.ref] = setDbfDataSection(@, pdb,
                                                        loc.header.headerLength)]
                      IN  [loc |-> [loc EXCEPT !.pc = "parsing", !.heap = heap3],
                           g   |-> g1]
                 ELSE [loc |-> [loc EXCEPT !.pc = "done", !.heap = heap2,
                                           !.result = ReturnValue(loc, <<>>, g1)],
                       g   |-> g1]

\* what dbf.parse (a library outside this repository) makes of a buffer
ParsedRecords(buffer) == <<"records of", buffer>>

\* lines 76-89: dbf.parse settles (parseOk) or throws, then the return
ProcessAfterParse(loc, g, parseOk) ==
    LET records == IF parseOk THEN ParsedRecords(loc.heap.tmp) ELSE <<>>
        g1      == IF parseOk THEN g
                   ELSE [g EXCEPT !.statusMessage = StrAppend(@, MsgParseError)]
    IN  [loc |-> [loc EXCEPT !.pc = "done", !.records = records,
                             !.heap = [@ EXCEPT !.tmp = <<>>],
                             !.result = ReturnValue(loc, records, g1)],
         g   |-> g1]

\* what the caller gets: how the promise settled, and on success the bytes of
\* the returned buffer, the records, the fields and the status
Outcome(loc) ==
    IF loc.pc = "done"
    THEN [settled |-> "resolved",
          bytes   |-> loc.heap[loc.result.value.fileBuffer],
          records |-> loc.result.value.records,
          fields  |-> loc.result.value.fields,
          status  |-> loc.result.value.status]
    ELSE [settled |-> "rejected", error |-> loc.error]

\* one invocation alone in a freshly loaded module, dbf.parse settling as parseOk
RunAlone(fileBytes, keyData, isDecrypt, parseOk) ==
    LET l1 == ProcessEntry(fileBytes, keyData, isDecrypt)
    IN  IF l1.pc = "failed" THEN Outcome(l1)
        ELSE LET r2 == ProcessAfterTimer(l1, FreshGlobals)
             IN  IF r2.loc.pc # "parsing" THEN Outcome(r2.loc)
                 ELSE Outcome(ProcessAfterParse(r2.loc, r2.g, parseOk).loc)

(***************************************************************************)
(* The files and keys the invocations are given                            *)
(***************************************************************************)
Zeros(n) == [i \in 1 .. n |-> 0]
LE16(n) == <<n % 256, n \div 256>>
LE32(n) == <<n % 256, (n \div 256) % 256, (n \div 65536) % 256, n \div 16777216>>

\* the 32-byte base header: status, YY MM DD, recordCount, headerLength,
\* recordLength, 16 reserved bytes (the first one set), MDX flag, language
\* driver 0x03, 2 reserved bytes
BaseHeader(status, numRecords, headerLength, recordLength) ==
    <<status, 125, 11, 5>> \o LE32(numRecords) \o LE16(headerLength)
        \o LE16(recordLength) \o <<7>> \o Zeros(15) \o <<1, 3, 0, 0>>

\* a 32-byte field descriptor: name (11, NUL padded), type, 4 reserved,
\* length, decimal places, 14 reserved (the last one set)
Descriptor(name, type, length, decimalPlaces) ==
    name \o Zeros(11 - Len(name)) \o <<type>> \o Zeros(4)
        \o <<length, decimalPlaces>> \o Zeros(13) \o <<9>>

\* a table of one character field "A" of length 1: 65 header bytes, records of
\* 2 bytes, then the trailer
OneFieldFile(status, numRecords, payload, trailer) ==
    BaseHeader(status, numRecords, 65, 2) \o Descriptor(<<65>>, 67, 1, 0)
        \o <<13>> \o payload \o trailer

Encrypted2 == OneFieldFile(6, 2, <<9, 200, 77, 31>>, <<26>>)
Encrypted1 == OneFieldFile(6, 1, <<150, 3>>, <<26>>)
Plain1     == OneFieldFile(3, 1, <<32, 65>>, <<26>>)
\* a 4-byte buffer
Tiny4      == <<3, 125, 11, 5>>

\* [0x05, 0x06, ...] of "dbfProcess - Copia.ts" and the text key of dbfProcess.ts,
\* U+00B0 U+266B { U+2554 U+2195 V < U+2193
KeyArray == [kind |-> "array", elems |-> <<5, 6, 5, 6, 5, 6, 5, 6>>]
KeyText == [kind |-> "string", chars |-> <<176, 9835, 123, 9556, 8597, 86, 60, 8595>>]

KeyInputs == {KeyArray, KeyText}

\* the calls callers make: every file, each key, each mode
CallInputs ==
    { [fileBytes |-> Encrypted2, keyData |-> KeyArray, isDecrypt |-> TRUE],
      [fileBytes |-> Encrypted2, keyData |-> KeyArray, isDecrypt |-> FALSE],
      [fileBytes |-> Encrypted2, keyData |-> KeyText,  isDecrypt |-> TRUE],
      [fileBytes |-> Encrypted1, keyData |-> KeyText,  isDecrypt |-> TRUE],
      [fileBytes |-> Encrypted1, keyData |-> KeyArray, isDecrypt |-> FALSE],
      [fileBytes |-> Plain1,     keyData |-> KeyArray, isDecrypt |-> TRUE],
      [fileBytes |-> Plain1,     keyData |-> KeyText,  isDecrypt |-> FALSE],
      [fileBytes |-> Tiny4,      keyData |-> KeyArray, isDecrypt |-> TRUE] }

(***************************************************************************)
(* The invocations                                                         *)
(***************************************************************************)
Tasks == 1 .. MaxCalls

IdleTask ==
    [args       |-> [fileBytes |-> <<>>, keyData |-> [kind |-> "none"], isDecrypt |-> FALSE],
     from       |-> 0,
     overlapped |-> {},
     parseOk    |-> TRUE,
     loc        |-> [pc |-> "idle"]]

Pc(t) == task[t].loc.pc
Active(t) == Pc(t) \in {"timer", "parsing"}
Settled(t) == Pc(t) \in {"done", "failed"}
Globals == [processedDataBytes |-> processedDataBytes, statusMessage |-> statusMessage]

\* processDbfFile(fileBytes, keyData, isDecrypt) is called: it runs to its
\* first await.  Slots are taken in order.
Start(t, fileBytes, keyData, isDecrypt, from) ==
    /\ Pc(t) = "idle"
    /\ IF t = 1 THEN TRUE ELSE Pc(t - 1) # "idle"
    /\ LET running == {u \in Tasks : Active(u)}
           loc     == ProcessEntry(fileBytes, keyData, isDecrypt)
       IN  task' = [u \in Tasks |->
                      IF u = t
                      THEN [args       |-> [fileBytes |-> fileBytes, keyData |-> keyData,
                                            isDecrypt |-> isDecrypt],
                            from       |-> from,
                            overlapped |-> IF loc.pc = "timer" THEN running ELSE {},
                            parseOk    |-> TRUE,
                            loc        |-> loc]
                      ELSE IF u \in running /\ loc.pc = "timer"
                      THEN [task[u] EXCEPT !.overlapped = @ \cup {t}]
                      ELSE task[u]]
    /\ UNCHANGED <<processedDataBytes, statusMessage, cipher, parse, fcall, harbour>>

\* a caller hands over a file it read
Call(t) ==
    \E a \in CallInputs : Start(t, a.fileBytes, a.keyData, a.isDecrypt, 0)

\* runDbfProcessor: the buffer a decrypt call returned is saved, read back and
\* given to an encrypt call with the same key
CallOnResult(t) ==
    \E u \in Tasks :
        /\ Pc(u) = "done"
        /\ task[u].args.isDecrypt
        /\ Start(t, task[u].loc.heap[task[u].loc.result.value.fileBuffer],
                 task[u].args.keyData, FALSE, u)

\* the timer of line 46 fires: the invocation runs to dbf.parse or to its end
TimerFires(t) ==
    /\ Pc(t) = "timer"
    /\ LET r == ProcessAfterTimer(task[t].loc, Globals)
       IN  /\ task' = [task EXCEPT ![t].loc = r.loc]
           /\ processedDataBytes' = r.g.processedDataBytes
           /\ statusMessage' = r.g.statusMessage
    /\ UNCHANGED <<cipher, parse, fcall, harbour>>

\* dbf.parse settles: the invocation runs to its end
ParseSettles(t) ==
    /\ Pc(t) = "parsing"
    /\ \E parseOk \in BOOLEAN :
          LET r == ProcessAfterParse(task[t].loc, Globals, parseOk)
          IN  /\ task' = [task EXCEPT ![t].loc = r.loc, ![t].parseOk = parseOk]
              /\ processedDataBytes' = r.g.processedDataBytes
              /\ statusMessage' = r.g.statusMessage
    /\ UNCHANGED <<cipher, parse, fcall, harbour>>

Init ==
    /\ processedDataBytes = Undefined
    /\ statusMessage = Undefined
    /\ harbour = NoHarbour
    /\ task = [t \in Tasks |-> IdleTask]
    /\ cipher = CipherIdle
    /\ parse = [pc |-> "idle"]
    /\ fcall = [pc |-> "idle"]

Next ==
    \E t \in Tasks :
        \/ Call(t)
        \/ CallOnResult(t)
        \/ TimerFires(t)
        \/ ParseSettles(t)

Spec == Init /\ [][Next]_vars

(***************************************************************************)
(* What the claims say of an invocation, read off its arguments            *)
(***************************************************************************)
FileOf(t) == task[t].args.fileBytes
KeyOf(t) == createKeyBytes(task[t].args.keyData)
OutOf(t) == task[t].loc.heap[task[t].loc.result.value.fileBuffer]
StatusOf(t) == task[t].loc.result.value.status

\* the header words of a buffer of at least 12 bytes
StatusByte(f) == f[1]
RecordCount(f) == f[5] + 256 * f[6] + 65536 * f[7] + 16777216 * f[8]
HeaderLength(f) == f[9] + 256 * f[10]
RecordLength(f) == f[11] + 256 * f[12]

\* the descriptor region ends with 0x0D at a descriptor boundary below headerLength
RECURSIVE HasTerminator(_, _)
HasTerminator(f, pos) ==
    /\ pos <= HeaderLength(f) - 1
    /\ pos < Len(f)
    /\ \/ f[pos + 1] = 13
       \/ HasTerminator(f, pos + 32)

\* a buffer the spec's header invariants accept
ValidDbf(f) ==
    /\ Len(f) >= 32
    /\ HeaderLength(f) >= 33
    /\ RecordLength(f) >= 1
    /\ Len(f) >= HeaderLength(f) + RecordCount(f) * RecordLength(f)
    /\ HasTerminator(f, 32)

\* the positions (1-based) of the payload range of f that lie inside g
PayloadPositions(f, g) ==
    {k \in 1 .. Len(g) :
        /\ k > HeaderLength(f)
        /\ k <= HeaderLength(f) + RecordCount(f) * RecordLength(f)}

PayloadOf(f, g) ==
    SubSeq(g, HeaderLength(f) + 1,
           Min(HeaderLength(f) + RecordCount(f) * RecordLength(f), Len(g)))

\* C2: a valid file F with status 0x06, decrypted and then encrypted with the
\* same key, comes back byte for byte: the encrypt call made on the buffer a
\* decrypt call of F returned resolves to a buffer equal to F.
C2_DecryptEncryptRoundTrip ==
    \A t \in Tasks :
        (/\ Settled(t)
         /\ task[t].from # 0
         /\ ValidDbf(FileOf(task[t].from))
         /\ StatusByte(FileOf(task[t].from)) = 6)
        => (/\ Pc(t) = "done"
            /\ OutOf(t) = FileOf(task[t].from))

\* C3: encrypt mode on a plain file (status 0x03) returns a buffer whose
\* payload is hb_sxEnCrypt of the input payload and whose status byte is 0x06.
C3_EncryptPlain ==
    \A t \in Tasks :
        (/\ Settled(t)
         /\ ~task[t].args.isDecrypt
         /\ ValidDbf(FileOf(t))
         /\ StatusByte(FileOf(t)) = 3)
        => (/\ Pc(t) = "done"
            /\ StatusByte(OutOf(t)) = 6
            /\ PayloadOf(FileOf(t), OutOf(t))
                 = hb_sxEnCrypt(PayloadOf(FileOf(t), FileOf(t)), KeyOf(t)))

\* C4: decrypt mode on a file that is already plain (status 0x03) returns the
\* input byte for byte and a status that does not report a transformation.
C4_DecryptPlainPassThrough ==
    \A t \in Tasks :
        (/\ Settled(t)
         /\ task[t].args.isDecrypt
         /\ ValidDbf(FileOf(t))
         /\ StatusByte(FileOf(t)) = 3)
        => (/\ Pc(t) = "done"
            /\ OutOf(t) = FileOf(t)
            /\ StatusOf(t).defined
            /\ \A i \in 1 .. Len(StatusOf(t).value) :
                  StatusOf(t).value[i] \notin {MsgDecrypted, MsgEncrypted})

\* hb_sxDeCrypt of the payload of each file callers hand over, under each key
DecryptedPayload ==
    [a \in CallInputs |->
        IF Len(a.fileBytes) < 12 THEN <<>>
        ELSE hb_sxDeCrypt(PayloadOf(a.fileBytes, a.fileBytes), createKeyBytes(a.keyData))]

\* C5: decrypt mode on a file with status 0x06 returns a buffer whose payload
\* range is hb_sxDeCrypt of the input payload under the key given, and whose
\* status byte is 0x03 -- whatever else ran before or meanwhile.
C5_DecryptEncrypted ==
    \A t \in Tasks :
        (/\ Settled(t)
         /\ task[t].args.isDecrypt
         /\ ValidDbf(FileOf(t))
         /\ StatusByte(FileOf(t)) = 6)
        => (/\ Pc(t) = "done"
            /\ StatusByte(OutOf(t)) = 3
            /\ Len(OutOf(t)) = Len(FileOf(t))
            /\ PayloadOf(FileOf(t), OutOf(t)) = DecryptedPayload[task[t].args])

\* a decrypt call of the two-record encrypted file returned while another call
\* was under way, and its payload is not the payload it was given
C5_Witness ==
    \E t \in Tasks :
        /\ Pc(t) = "done"
        /\ task[t].args.isDecrypt
        /\ FileOf(t) = Encrypted2
        /\ task[t].overlapped # {}
        /\ PayloadOf(FileOf(t), OutOf(t)) # PayloadOf(FileOf(t), FileOf(t))

\* C6: the outcome of an invocation is a function of its own arguments: an
\* invocation that ran with no other invocation under way resolves or rejects
\* exactly as it does in a freshly loaded module, whatever ran before it.
C6_NoCarryOver ==
    \A t \in Tasks :
        (Settled(t) /\ task[t].overlapped = {})
        => Outcome(task[t].loc)
             = RunAlone(FileOf(t), task[t].args.keyData, task[t].args.isDecrypt,
                        task[t].parseOk)

\* C7: two invocations on different files that overlap in time each resolve or
\* reject exactly as they do alone.
C7_OverlapIsolated ==
    \A t \in Tasks :
        (/\ Settled(t)
         /\ \E u \in task[t].overlapped : FileOf(u) # FileOf(t))
        => Outcome(task[t].loc)
             = RunAlone(FileOf(t), task[t].args.keyData, task[t].args.isDecrypt,
                        task[t].parseOk)

\* C8: the returned buffer differs from the input at offset 0 and inside the
\* payload range only: it is as long as the input, and every other header
\* byte and every byte after the payload range is the input's.
C8_FrameOutsidePayload ==
    \A t \in Tasks :
        Pc(t) = "done"
        => (/\ Len(OutOf(t)) = Len(FileOf(t))
            /\ \A k \in 1 .. Len(FileOf(t)) :
                  OutOf(t)[k] # FileOf(t)[k]
                  => (k = 1 \/ k \in PayloadPositions(FileOf(t), FileOf(t))))

\* C9: the caller's buffer is never written: at every point of an invocation,
\* and after it resolved or rejected, it holds the bytes it was called with,
\* and the buffer returned is not the caller's buffer.
C9_InputNotMutated ==
    \A t \in Tasks :
        Pc(t) # "idle"
        => (/\ task[t].loc.heap[task[t].loc.fileBuffer] = FileOf(t)
            /\ Pc(t) = "done" => task[t].loc.result.value.fileBuffer # task[t].loc.fileBuffer)

\* an invocation returned a buffer that differs from its input (the copy was
\* written), and another one rejected
C9_Witness ==
    /\ \E t \in Tasks : Pc(t) = "done" /\ OutOf(t) # FileOf(t)
    /\ \E t \in Tasks : Pc(t) = "failed"

(***************************************************************************)
(* The header parsers on their own: a buffer is given to readDbfMetadata   *)
(* and to CHECA_HEADER_DBF                                                 *)
(***************************************************************************)
RECURSIVE Descriptors(_, _, _)
\* descriptors k .. n, field k named "A".."Z" by position, of length k
Descriptors(k, n, tail) ==
    IF k > n THEN <<>>
    ELSE Descriptor(<<64 + k>> \o tail, 67, k, 0) \o Descriptors(k + 1, n, tail)

\* a header with the given words and n descriptors, ended by `term`, followed
\* by numRecords * recordLength payload bytes and 0x1A, cut to `cut` bytes
HeaderBuffer(numRecords, headerLength, recordLength, n, tail, term, cut) ==
    LET full == BaseHeader(3, numRecords, headerLength, recordLength)
                    \o Descriptors(1, n, tail) \o term
                    \o [i \in 1 .. numRecords * recordLength |-> 32] \o <<26>>
    IN  SubSeq(full, 1, Min(cut, Len(full)))

HeaderSamples ==
    { HeaderBuffer(numRecords, headerLength, recordLength, n, tail, term, cut) :
        numRecords \in {0, 1},
        headerLength \in {0, 32, 33, 65, 97},
        recordLength \in {0, 2, 4},
        n \in 0 .. MaxDescriptors,
        tail \in {<<>>, <<133>>},
        term \in {<<13>>, <<0>>},
        cut \in {4, 20, 32, 40, 1000} }

InitParse ==
    /\ processedDataBytes = Undefined
    /\ statusMessage = Undefined
    /\ harbour = NoHarbour
    /\ task = <<>>
    /\ cipher = CipherIdle
    /\ fcall = [pc |-> "idle"]
    /\ \E buffer \in HeaderSamples :
          parse = [pc |-> "input", buffer |-> buffer,
                   metadata |-> Undefined, checa |-> Undefined]

\* readDbfMetadata(buffer)
ReadMetadata ==
    /\ parse.pc = "input"
    /\ ~parse.metadata.defined
    /\ parse' = [parse EXCEPT !.metadata = Defined(readDbfMetadata(parse.buffer))]
    /\ UNCHANGED <<processedDataBytes, statusMessage, task, cipher, fcall, harbour>>

\* CHECA_HEADER_DBF(buffer)
ChecaHeader ==
    /\ parse.pc = "input"
    /\ ~parse.checa.defined
    /\ parse' = [parse EXCEPT !.checa = Defined(CHECA_HEADER_DBF(parse.buffer))]
    /\ UNCHANGED <<processedDataBytes, statusMessage, task, cipher, fcall, harbour>>

NextParse == ReadMetadata \/ ChecaHeader

SpecParse == InitParse /\ [][NextParse]_vars

\* a buffer header parsing must refuse: shorter than 32 bytes, headerLength
\* below 33, recordLength 0, shorter than headerLength, or no 0x0D ending the
\* descriptor region within headerLength - 1
Malformed(f) ==
    \/ Len(f) < 32
    \/ HeaderLength(f) < 33
    \/ RecordLength(f) = 0
    \/ Len(f) < HeaderLength(f)
    \/ ~HasTerminator(f, 32)

\* C10: header parsing fails on every malformed buffer: readDbfMetadata gives
\* no header and no fields (so that processDbfFile rejects before it has an
\* output buffer), and CHECA_HEADER_DBF gives null.
C10_MalformedRejected ==
    Malformed(parse.buffer)
    => (/\ parse.metadata.defined
          => (/\ parse.metadata.value.threw
              /\ \A keyData \in KeyInputs, isDecrypt \in BOOLEAN :
                    ProcessEntry(parse.buffer, keyData, isDecrypt).pc = "failed")
        /\ parse.checa.defined => parse.checa.value.isNull)

\* 1 + the sum of the lengths of the parsed fields
RECURSIVE SumOfLengths(_)
SumOfLengths(fields) ==
    IF fields = <<>> THEN 0 ELSE Head(fields).length + SumOfLengths(Tail(fields))

\* C11: whenever header parsing succeeds, 1 + the sum of the field lengths is
\* recordLength: readDbfMetadata that returned, and CHECA_HEADER_DBF that gave
\* a header, give fields whose lengths add up to recordLength - 1.  Taken on
\* the buffers that have no other defect, where the sum alone is at stake.
C11_FieldLengthSum ==
    ~Malformed(parse.buffer)
    => (/\ (parse.metadata.defined /\ ~parse.metadata.value.threw)
           => 1 + SumOfLengths(parse.metadata.value.fields)
                = parse.metadata.value.header.recordLength
        /\ (parse.checa.defined /\ ~parse.checa.value.isNull)
           => 1 + SumOfLengths(parse.checa.value.fields) = parse.checa.value.recordSize)

(***************************************************************************)
(* dbfHandler's payload functions on their own: getDbfDataSection and      *)
(* setDbfDataSection are given a buffer and the header read from it        *)
(***************************************************************************)
\* record k of the one-field table: the row marker (0x2A on even rows), a letter
RecordBytes(k) == <<IF k % 2 = 0 THEN 42 ELSE 32, 64 + k>>

RECURSIVE RecordsUpTo(_)
RecordsUpTo(p) == IF p = 0 THEN <<>> ELSE RecordsUpTo(p - 1) \o RecordBytes(p)

\* files that declare d records and hold p, with and without the 0x1A, and a
\* file cut inside its header
HandlerBuffers ==
    { OneFieldFile(3, d, RecordsUpTo(p), trailer) :
        d \in 0 .. MaxRecords, p \in 0 .. MaxRecords, trailer \in {<<>>, <<26>>} }
    \cup { SubSeq(OneFieldFile(3, 1, RecordsUpTo(1), <<26>>), 1, 40) }

\* replacement bytes of every length from 0 to one record more than a file holds
ReplacementSamples ==
    { [i \in 1 .. n |-> 6 + i] : n \in 0 .. 2 * MaxRecords + 2 }

InitHandler ==
    /\ processedDataBytes = Undefined
    /\ statusMessage = Undefined
    /\ harbour = NoHarbour
    /\ task = <<>>
    /\ cipher = CipherIdle
    /\ parse = [pc |-> "idle"]
    /\ \E buffer \in HandlerBuffers, newDataBytes \in ReplacementSamples :
          fcall = [pc           |-> "handler",
                   buffer       |-> buffer,
                   header       |-> readDbfMetadata(buffer).header,
                   newDataBytes |-> newDataBytes,
                   dataBytes    |-> Undefined,
                   replaced     |-> Undefined,
                   putBack      |-> Undefined]

\* getDbfDataSection(buffer, header.headerLength, header.numRecords, header.recordLength)
GetDataSection ==
    /\ fcall.pc = "handler"
    /\ ~fcall.dataBytes.defined
    /\ fcall' = [fcall EXCEPT !.dataBytes =
                    Defined(getDbfDataSection(fcall.buffer, fcall.header.headerLength,
                                              fcall.header.numRecords,
                                              fcall.header.recordLength))]
    /\ UNCHANGED <<processedDataBytes, statusMessage, task, cipher, parse, harbour>>

\* setDbfDataSection(a copy of buffer, newDataBytes, header.headerLength): it
\* has no failing path, so it always returns
SetDataSection ==
    /\ fcall.pc = "handler"
    /\ ~fcall.replaced.defined
    /\ fcall' = [fcall EXCEPT !.replaced =
                    Defined([threw  |-> FALSE,
                             buffer |-> setDbfDataSection(fcall.buffer, fcall.newDataBytes,
                                                          fcall.header.headerLength)])]
    /\ UNCHANGED <<processedDataBytes, statusMessage, task, cipher, parse, harbour>>

\* setDbfDataSection(a copy of buffer, getDbfDataSection(buffer, ...), header.headerLength)
PutSliceBack ==
    /\ fcall.pc = "handler"
    /\ ~fcall.putBack.defined
    /\ LET slice == getDbfDataSection(fcall.buffer, fcall.header.headerLength,
                                      fcall.header.numRecords, fcall.header.recordLength)
       IN  fcall' = [fcall EXCEPT !.putBack =
                        Defined(setDbfDataSection(fcall.buffer, slice,
                                                  fcall.header.headerLength))]
    /\ UNCHANGED <<processedDataBytes, statusMessage, task, cipher, parse, harbour>>

NextHandler == GetDataSection \/ SetDataSection \/ PutSliceBack

SpecHandler == InitHandler /\ [][NextHandler]_vars

\* the length of the payload range the header declares
RangeLength(h) == h.numRecords * h.recordLength

\* C12: getDbfDataSection returns exactly the bytes of the range
\* [headerLength, headerLength + numRecords * recordLength) and never a slice
\* shorter than numRecords * recordLength: on a buffer that ends before the
\* range does it returns nothing.
C12_DataSectionExact ==
    fcall.dataBytes.defined
    => (/\ Len(fcall.dataBytes.value) = RangeLength(fcall.header)
        /\ \A i \in 1 .. Len(fcall.dataBytes.value) :
              fcall.dataBytes.value[i] = fcall.buffer[fcall.header.headerLength + i])

\* C13: setDbfDataSection fails whenever the replacement is not as long as the
\* payload range, and with equal lengths returns the input with the payload
\* range holding the replacement and every other byte as it was.
C13_ReplaceSizeChecked ==
    fcall.replaced.defined
    => LET h   == fcall.header
           out == fcall.replaced.value
       IN  IF Len(fcall.newDataBytes) # RangeLength(h) THEN out.threw
           ELSE /\ ~out.threw
                /\ Len(out.buffer) = Len(fcall.buffer)
                /\ \A k \in 1 .. Len(fcall.buffer) :
                      out.buffer[k] =
                         IF k > h.headerLength /\ k <= h.headerLength + RangeLength(h)
                         THEN fcall.newDataBytes[k - h.headerLength]
                         ELSE fcall.buffer[k]

\* C14: writing the payload slice back in place is the identity:
\* setDbfDataSection(buf, getDbfDataSection(buf, h...), h.headerLength) = buf
C14_PutBackIdentity ==
    fcall.putBack.defined => fcall.putBack.value = fcall.buffer

\* the slice of a file holding all MaxRecords records it declares, with its
\* 0x1A, was written back
C14_Witness ==
    /\ fcall.putBack.defined
    /\ fcall.buffer = OneFieldFile(3, MaxRecords, RecordsUpTo(MaxRecords), <<26>>)
    /\ fcall.putBack.value = fcall.buffer

\* a call of the cipher run has reached its return
CipherAtReturn ==
    \/ cipher.pc = "loop" /\ cipher.nPos > Len(cipher.src)
    \/ cipher.pc \in {"done", "repeated"}

\* C15: hb_sxEnCrypt and hb_sxDeCrypt return exactly as many bytes as they
\* were given, a zero-length input giving a zero-length output: at the return
\* of every call dstBytes is as long as srcBytes, and so are the results of
\* the two transforms taken as functions.
C15_LengthKept ==
    /\ CipherAtReturn => Len(cipher.dst) = Len(cipher.src)
    /\ cipher.pc = "done"
       => (/\ Len(hb_sxEnCrypt(cipher.input, cipher.key)) = Len(cipher.input)
           /\ Len(hb_sxDeCrypt(cipher.input, cipher.key)) = Len(cipher.input)
           /\ hb_sxEnCrypt(<<>>, cipher.key) = <<>>
           /\ hb_sxDeCrypt(<<>>, cipher.key) = <<>>)

\* the second call is at its return with MaxLen bytes stored, one of them 0x00
C15_Witness ==
    /\ cipher.pc = "loop"
    /\ cipher.stage = 2
    /\ cipher.nPos > Len(cipher.src)
    /\ Len(cipher.dst) = MaxLen
    /\ \E i \in 1 .. MaxLen : cipher.dst[i] = 0

\* C16: two runs of hb_sxEnCrypt (or of hb_sxDeCrypt) on equal key bytes and
\* equal input bytes give the same output, whatever cipher call was made in
\* between: the repeated call returns what the first call returned.
C16_Deterministic ==
    cipher.pc = "repeated" => cipher.dst = cipher.mid

\* the repeated call returned after the opposite call ran in between, on a run
\* of MaxLen bytes that the cipher changes
C16_Witness ==
    /\ cipher.pc = "repeated"
    /\ Len(cipher.input) = MaxLen
    /\ cipher.mid # cipher.input
    /\ cipher.dst = cipher.mid

(***************************************************************************)
(* createKeyBytes on its own                                               *)
(***************************************************************************)
\* NUL, "A", DEL, U+0080, U+00B0, U+07FF, U+0800, U+266B, a lone surrogate,
\* U+FFFF, U+10000, U+10FFFF
CharSamples == {0, 65, 127, 128, 176, 2047, 2048, 9835, 55296, 65535, 65536, 1114111}

\* list elements inside and outside 0..255
ElemSamples == {0, 5, 255, 256, 511, 1000, -1, -256}

\* the key texts: every text of up to two sample characters, texts of one
\* character repeated up to MaxKeyLen times, and the text of dbfProcess.ts
KeyTexts ==
    SeqsUpTo(CharSamples, 2)
    \cup { [i \in 1 .. n |-> c] : n \in 0 .. MaxKeyLen, c \in {65, 176, 9835, 65536} }
    \cup { KeyText.chars }

\* the key lists: every list of up to two sample elements, and lists of every
\* length up to MaxKeyLen that run over 255 or below 0
KeyLists ==
    SeqsUpTo(ElemSamples, 2)
    \cup { [i \in 1 .. n |-> base + i] : n \in 0 .. MaxKeyLen, base \in {0, 250, -5} }
    \cup { KeyArray.elems }

KeyInputSamples ==
    { [kind |-> "string", chars |-> t] : t \in KeyTexts }
    \cup { [kind |-> "array", elems |-> l] : l \in KeyLists }

InitKey ==
    /\ processedDataBytes = Undefined
    /\ statusMessage = Undefined
    /\ harbour = NoHarbour
    /\ task = <<>>
    /\ cipher = CipherIdle
    /\ parse = [pc |-> "idle"]
    /\ \E keyInput \in KeyInputSamples :
          fcall = [pc |-> "key", keyInput |-> keyInput, keyBytes |-> Undefined]

\* createKeyBytes(keyInput)
CreateKey ==
    /\ fcall.pc = "key"
    /\ ~fcall.keyBytes.defined
    /\ fcall' = [fcall EXCEPT !.keyBytes = Defined(createKeyBytes(fcall.keyInput))]
    /\ UNCHANGED <<processedDataBytes, statusMessage, task, cipher, parse, harbour>>

NextKey == CreateKey

SpecKey == InitKey /\ [][NextKey]_vars

\* the first 8 of the bytes, zero-padded on the right
CutOrPad(bytes) == SubSeq(bytes \o <<0, 0, 0, 0, 0, 0, 0, 0>>, 1, 8)

\* C17: createKeyBytes returns exactly 8 bytes for every input: a text key is
\* its UTF-8 encoding cut to 8 bytes or zero-padded on the right; a numeric
\* list gives element i masked to 8 bits at index i for i < 8, drops what is
\* past index 7 and leaves 0x00 where it has no element.
C17_KeyNormalised ==
    fcall.pc = "key" /\ fcall.keyBytes.defined
    => LET keyInput == fcall.keyInput
           keyBytes == fcall.keyBytes.value
       IN  /\ Len(keyBytes) = 8
           /\ \A i \in 1 .. 8 : keyBytes[i] \in Byte
           /\ keyInput.kind = "string" => keyBytes = CutOrPad(TextEncode(keyInput.chars))
           /\ keyInput.kind = "array"
              => keyBytes = CutOrPad([i \in 1 .. Len(keyInput.elems) |->
                                         keyInput.elems[i] % 256])

\* the key text of dbfProcess.ts, whose UTF-8 encoding is longer than 8 bytes
\* and is cut inside a character, was normalised
C17_Witness ==
    /\ fcall.pc = "key"
    /\ fcall.keyBytes.defined
    /\ fcall.keyInput = KeyText
    /\ Len(TextEncode(KeyText.chars)) > 8
    /\ fcall.keyBytes.value = <<194, 176, 226, 153, 171, 123, 226, 149>>

(***************************************************************************)
(* The code-page resolver on its own: VERIFICA_CODE_PAGE and               *)
(* OBTEM_CODE_PAGE, alone and as CHECA_HEADER_DBF combines them            *)
(***************************************************************************)
\* a header with every value of the language-driver byte, whole and cut
\* before offset 29
CodePageBuffers ==
    { [BaseHeader(3, 0, 33, 1) EXCEPT ![30] = b] \o <<13, 26>> : b \in Byte }
    \cup { SubSeq([BaseHeader(3, 0, 33, 1) EXCEPT ![29] = b], 1, 29) : b \in {0, 3} }

InitCodePage ==
    /\ processedDataBytes = Undefined
    /\ statusMessage = Undefined
    /\ harbour = NoHarbour
    /\ task = <<>>
    /\ cipher = CipherIdle
    /\ parse = [pc |-> "idle"]
    /\ \E buffer \in CodePageBuffers :
          fcall = [pc |-> "codepage", buffer |-> buffer, hasCodePage |-> Undefined,
                   obtained |-> Undefined, codePage |-> Undefined]

\* VERIFICA_CODE_PAGE(buffer)
VerificaCodePage ==
    /\ fcall.pc = "codepage"
    /\ ~fcall.hasCodePage.defined
    /\ fcall' = [fcall EXCEPT !.hasCodePage = Defined(VERIFICA_CODE_PAGE(fcall.buffer))]
    /\ UNCHANGED <<processedDataBytes, statusMessage, task, cipher, parse, harbour>>

\* OBTEM_CODE_PAGE(buffer)
ObtemCodePage ==
    /\ fcall.pc = "codepage"
    /\ ~fcall.obtained.defined
    /\ fcall' = [fcall EXCEPT !.obtained = Defined(OBTEM_CODE_PAGE(fcall.buffer))]
    /\ UNCHANGED <<processedDataBytes, statusMessage, task, cipher, parse, harbour>>

\* CHECA_HEADER_DBF lines 62-67: codePage stays undefined unless hasCodePage
ResolveCodePage ==
    /\ fcall.pc = "codepage"
    /\ fcall.hasCodePage.defined
    /\ ~fcall.codePage.defined
    /\ fcall' = [fcall EXCEPT !.codePage =
                    Defined(IF fcall.hasCodePage.value THEN OBTEM_CODE_PAGE(fcall.buffer)
                            ELSE Undefined)]
    /\ UNCHANGED <<processedDataBytes, statusMessage, task, cipher, parse, harbour>>

NextCodePage == VerificaCodePage \/ ObtemCodePage \/ ResolveCodePage

SpecCodePage == InitCodePage /\ [][NextCodePage]_vars

\* the language-driver bytes the mapping table lists
ListedDrivers ==
    {1, 2, 3, 4, 8, 9, 10, 11, 13, 14, 15, 16,
     17, 18, 19, 20, 21, 22, 23, 24, 25, 26, 27, 28,
     29, 31, 34, 35, 36, 37, 38, 55, 64, 77, 78, 79,
     80, 87, 88, 89, 100, 101, 102, 103, 106, 107, 108, 120,
     121, 122, 123, 124, 134, 135, 136, 200, 201, 202, 203, 204}

\* the code page the mapping table gives for a listed byte (0 for the others)
TableCodePage(b) ==
    IF b \in {1, 9, 11, 13, 15, 17, 21, 24, 25, 27} THEN 437
    ELSE IF b \in {106, 134} THEN 737
    ELSE IF b \in {2, 10, 14, 16, 18, 20, 22, 26, 29, 37, 55} THEN 850
    ELSE IF b \in {31, 34, 35, 64, 100, 135} THEN 852
    ELSE IF b \in {107, 136} THEN 857
    ELSE IF b \in {36} THEN 860
    ELSE IF b \in {103} THEN 861
    ELSE IF b \in {28, 108} THEN 863
    ELSE IF b \in {8, 23, 102} THEN 865
    ELSE IF b \in {38, 101} THEN 866
    ELSE IF b \in {80, 124} THEN 874
    ELSE IF b \in {19, 123} THEN 932
    ELSE IF b \in {77, 122} THEN 936
    ELSE IF b \in {78, 121} THEN 949
    ELSE IF b \in {79, 120} THEN 950
    ELSE IF b \in {200} THEN 1250
    ELSE IF b \in {201} THEN 1251
    ELSE IF b \in {3, 87, 88, 89} THEN 1252
    ELSE IF b \in {203} THEN 1253
    ELSE IF b \in {202} THEN 1254
    ELSE IF b \in {204} THEN 1257
    ELSE IF b \in {4} THEN 10000
    ELSE 0

\* what the resolver is to return for a buffer: the table's code page for a
\* listed language-driver byte, none otherwise
ExpectedCodePage(buffer) ==
    IF Len(buffer) >= 30 /\ buffer[30] \in ListedDrivers
    THEN Defined(TableCodePage(buffer[30]))
    ELSE Undefined

\* C18: the code-page resolver returns, for each language-driver byte the
\* mapping table lists, exactly the table's code page (0x03 -> 1252,
\* 0x26 -> 866, 0x4F -> 950), and none for every other byte, 0x00 included.
C18_CodePageTable ==
    /\ TableCodePage(3) = 1252 /\ TableCodePage(38) = 866 /\ TableCodePage(79) = 950
    /\ 0 \notin ListedDrivers
    /\ fcall.pc = "codepage"
       => (/\ fcall.obtained.defined
              => fcall.obtained.value = ExpectedCodePage(fcall.buffer)
           /\ fcall.codePage.defined
              => fcall.codePage.value = ExpectedCodePage(fcall.buffer)
           /\ fcall.hasCodePage.defined /\ fcall.hasCodePage.value
              => Len(fcall.buffer) >= 30 /\ fcall.buffer[30] # 0)

\* the resolver was given language-driver byte 0x4F and gave 950, both ways
C18_Witness ==
    /\ fcall.pc = "codepage"
    /\ Len(fcall.buffer) >= 30
    /\ fcall.buffer[30] = 79
    /\ fcall.obtained = Defined(Defined(950))
    /\ fcall.codePage = Defined(Defined(950))

(***************************************************************************)
(* dbfHarbour: LER_REGISTRO_DBF and LER_TODOS_REGISTROS_DBF                *)
(*                                                                         *)
(* A string is the sequence of its code points.  A decoded record is a     *)
(* function from field names to values; null is [isNull |-> TRUE], as for  *)
(* CHECA_HEADER_DBF.                                                       *)
(***************************************************************************)
Null == [isNull |-> TRUE]

\* Buffer.prototype.slice(start, end): clamped to the buffer
BufferSlice(buffer, start, end) == SubSeq(buffer, start + 1, Min(end, Len(buffer)))

\* Buffer.prototype.toString('utf8') on bytes that form no multi-byte
\* sequence: a byte below 0x80 is its character, any other becomes U+FFFD
RECURSIVE BufferToString(_)
BufferToString(bytes) ==
    IF bytes = <<>> THEN <<>>
    ELSE <<IF Head(bytes) < 128 THEN Head(bytes) ELSE 65533>>
         \o BufferToString(Tail(bytes))

\* String.prototype.toUpperCase on the letters a-z
ToUpperCase(str) == [i \in 1 .. Len(str) |-> IF str[i] \in 97 .. 122 THEN str[i] - 32 ELSE str[i]]

IsDigit(c) == c \in 48 .. 57

\* the value of the longest run of decimal digits at the start of str, and
\* how many digits it has
RECURSIVE DigitsPrefix(_, _, _)
DigitsPrefix(str, value, count) ==
    IF str = <<>> \/ ~IsDigit(Head(str)) THEN [value |-> value, count |-> count]
    ELSE DigitsPrefix(Tail(str), 10 * value + (Head(str) - 48), count + 1)

NaN == [kind |-> "number", nan |-> TRUE]

\* parseInt(str, 10): leading white space skipped, an optional sign, then
\* decimal digits; NaN without a digit
parseInt(str) ==
    LET t      == TrimLeft(str)
        signed == t # <<>> /\ Head(t) \in {43, 45}
        digits == DigitsPrefix(IF signed THEN Tail(t) ELSE t, 0, 0)
    IN  IF digits.count = 0 THEN NaN
        ELSE [kind |-> "number", nan |-> FALSE,
              value |-> IF signed /\ Head(t) = 45 THEN 0 - digits.value ELSE digits.value,
              frac  |-> <<>>]

\* the digits after a decimal point, up to the first character that is none
RECURSIVE FractionDigits(_)
FractionDigits(str) ==
    IF str = <<>> \/ ~IsDigit(Head(str)) THEN <<>>
    ELSE <<Head(str) - 48>> \o FractionDigits(Tail(str))

\* a fraction without its trailing zeros
RECURSIVE StripZeros(_)
StripZeros(digits) ==
    IF digits # <<>> /\ digits[Len(digits)] = 0
    THEN StripZeros(SubSeq(digits, 1, Len(digits) - 1)) ELSE digits

\* parseFloat(str) on texts of the form [sign] digits [. digits] (no exponent,
\* no "Infinity"): the signed whole part and the digits of the fraction
parseFloat(str) ==
    LET t      == TrimLeft(str)
        signed == t # <<>> /\ Head(t) \in {43, 45}
        body   == IF signed THEN Tail(t) ELSE t
        whole  == DigitsPrefix(body, 0, 0)
        rest   == SubSeq(body, whole.count + 1, Len(body))
        frac   == IF rest # <<>> /\ Head(rest) = 46 THEN FractionDigits(Tail(rest)) ELSE <<>>
    IN  IF whole.count = 0 /\ frac = <<>> THEN NaN
        ELSE [kind |-> "number", nan |-> FALSE,
              value |-> IF signed /\ Head(t) = 45 THEN 0 - whole.value ELSE whole.value,
              frac  |-> StripZeros(frac)]

\* n - 1 on a number: NaN stays NaN
MinusOne(n) == IF n.nan THEN NaN ELSE [n EXCEPT !.value = @ - 1]

NullValue == [kind |-> "null"]

\* new Date(year, month, day): the Date of the three arguments, an Invalid
\* Date when one of them is NaN
NewDate(year, month, day) ==
    [kind |-> "date", invalid |-> year.nan \/ month.nan \/ day.nan,
     year |-> year, month |-> month, day |-> day]

\* the switch of LER_REGISTRO_DBF on field.type ('C' 67, 'N' 78, 'F' 70,
\* 'L' 76, 'D' 68, 'M' 77); a 'D' value is the arguments given to new Date
FieldValue(field, fieldData) ==
    LET str == Trim(BufferToString(fieldData))
    IN  IF field.type = 78
        THEN (IF str = <<>> THEN NullValue
              ELSE IF field.decimalPlaces > 0 THEN parseFloat(str) ELSE parseInt(str))
        ELSE IF field.type = 70
        THEN (IF str = <<>> THEN NullValue ELSE parseFloat(str))
        ELSE IF field.type = 76
        THEN (IF ToUpperCase(str) \in {<<84>>, <<89>>} THEN [kind |-> "boolean", value |-> TRUE]
              ELSE IF ToUpperCase(str) \in {<<70>>, <<78>>}
              THEN [kind |-> "boolean", value |-> FALSE]
              ELSE NullValue)
        ELSE IF field.type = 68
        THEN (IF Len(str) = 8
              THEN NewDate(parseInt(SubSeq(str, 1, 4)),
                           MinusOne(parseInt(SubSeq(str, 5, 6))),
                           parseInt(SubSeq(str, 7, 8)))
              ELSE NullValue)
        ELSE [kind |-> "string", chars |-> str]

\* the for loop over header.fields: record[field.name] = value
RECURSIVE RecordLoop(_, _, _, _, _)
RecordLoop(buffer, fields, i, recordOffset, record) ==
    IF i > Len(fields) THEN record
    ELSE LET field       == fields[i]
             fieldOffset == recordOffset + 1 + field.offset
             fieldData   == BufferSlice(buffer, fieldOffset, fieldOffset + field.length)
         IN  RecordLoop(buffer, fields, i + 1, recordOffset,
                        (field.name :> FieldValue(field, fieldData)) @@ record)

\* LER_REGISTRO_DBF that does not look at the deletion marker
LER_REGISTRO_DBF_IgnoresMarker(buffer, header, recordIndex) ==
    IF header.isNull \/ recordIndex < 0 \/ recordIndex >= header.recordCount THEN Null
    ELSE LET recordOffset == header.headerSize + (recordIndex * header.recordSize)
         IN  [isNull |-> FALSE,
              record |-> RecordLoop(buffer, header.fields, 1, recordOffset, <<>>)]

\* LER_REGISTRO_DBF(buffer, header, recordIndex): null, or the record
LER_REGISTRO_DBF(buffer, header, recordIndex) ==
    IF header.isNull \/ recordIndex < 0 \/ recordIndex >= header.recordCount THEN Null
    ELSE LET recordOffset  == header.headerSize + (recordIndex * header.recordSize)
             recordDeleted == recordOffset < Len(buffer) /\ buffer[recordOffset + 1] = 42
         IN  IF recordDeleted THEN Null
             ELSE [isNull |-> FALSE,
                   record |-> RecordLoop(buffer, header.fields, 1, recordOffset, <<>>)]

\* the for loop of LER_TODOS_REGISTROS_DBF: a record that is not null is pushed
RECURSIVE TodosLoop(_, _, _, _)
TodosLoop(buffer, header, i, records) ==
    IF ~(i < header.recordCount) THEN records
    ELSE LET record == LER_REGISTRO_DBF(buffer, header, i)
         IN  TodosLoop(buffer, header, i + 1,
                       IF record.isNull THEN records ELSE Append(records, record.record))

\* LER_TODOS_REGISTROS_DBF(buffer): null, or the list of the records
LER_TODOS_REGISTROS_DBF(buffer) ==
    LET header == CHECA_HEADER_DBF(buffer)
    IN  IF header.isNull THEN Null
        ELSE [isNull |-> FALSE, records |-> TodosLoop(buffer, header, 0, <<>>)]

(***************************************************************************)
(* The record reader on its own: a table and a record index                *)
(***************************************************************************)
\* the fields of the tables read: A (C, 2), N (N, 3), L (L, 1), D (D, 8)
FieldSpecs ==
    << [name |-> <<65>>, type |-> 67, length |-> 2],
       [name |-> <<78>>, type |-> 78, length |-> 3],
       [name |-> <<76>>, type |-> 76, length |-> 1],
       [name |-> <<68>>, type |-> 68, length |-> 8] >>

RECURSIVE TableDescriptors(_)
TableDescriptors(nf) ==
    IF nf = 0 THEN <<>>
    ELSE TableDescriptors(nf - 1)
         \o Descriptor(FieldSpecs[nf].name, FieldSpecs[nf].type, FieldSpecs[nf].length, 0)

RECURSIVE FieldsWidth(_)
FieldsWidth(nf) == IF nf = 0 THEN 0 ELSE FieldsWidth(nf - 1) + FieldSpecs[nf].length

\* "AB", "  7", "T", "20240229"
FullFields == <<65, 66, 32, 32, 55, 84, 50, 48, 50, 52, 48, 50, 50, 57>>
BlankFields == [i \in 1 .. 14 |-> 32]
\* "AB", "  7", "T", "2024AB01"
BadDateFields == <<65, 66, 32, 32, 55, 84, 50, 48, 50, 52, 65, 66, 48, 49>>

\* the rows of a table of the first nf fields: live (0x20), deleted (0x2A) or
\* with 0x00 as first byte, filled, blank or with letters in the date
RowSamples(nf) ==
    { <<marker>> \o SubSeq(content, 1, FieldsWidth(nf)) :
        marker \in {32, 42, 0}, content \in {FullFields, BlankFields, BadDateFields} }

RECURSIVE Flatten(_)
Flatten(rows) == IF rows = <<>> THEN <<>> ELSE Head(rows) \o Flatten(Tail(rows))

\* a table of the first nf fields that declares numRecords records and holds
\* the rows given
RecordTable(nf, numRecords, rows, trailer) ==
    BaseHeader(3, numRecords, 33 + 32 * nf, 1 + FieldsWidth(nf))
        \o TableDescriptors(nf) \o <<13>> \o Flatten(rows) \o trailer

\* tables of 0, 1 and 4 fields holding up to MaxRecords rows, and tables that
\* declare one record more than they hold
RecordFiles ==
    UNION { { RecordTable(nf, Len(rows), rows, <<26>>) :
                rows \in SeqsUpTo(RowSamples(nf), MaxRecords) } : nf \in {0, 1, 4} }
    \cup { RecordTable(nf, 1, <<>>, <<>>) : nf \in {0, 1, 4} }

InitRecord ==
    /\ processedDataBytes = Undefined
    /\ statusMessage = Undefined
    /\ harbour = NoHarbour
    /\ task = <<>>
    /\ cipher = CipherIdle
    /\ parse = [pc |-> "idle"]
    /\ \E buffer \in RecordFiles, recordIndex \in -1 .. MaxRecords :
          fcall = [pc |-> "record", buffer |-> buffer, recordIndex |-> recordIndex,
                   registro |-> Undefined, todos |-> Undefined]

\* LER_REGISTRO_DBF(buffer, CHECA_HEADER_DBF(buffer), recordIndex)
LerRegistro ==
    /\ fcall.pc = "record"
    /\ ~fcall.registro.defined
    /\ fcall' = [fcall EXCEPT !.registro =
                    Defined(LER_REGISTRO_DBF(fcall.buffer, CHECA_HEADER_DBF(fcall.buffer),
                                             fcall.recordIndex))]
    /\ UNCHANGED <<processedDataBytes, statusMessage, task, cipher, parse, harbour>>

\* LER_TODOS_REGISTROS_DBF(buffer)
LerTodos ==
    /\ fcall.pc = "record"
    /\ ~fcall.todos.defined
    /\ fcall' = [fcall EXCEPT !.todos = Defined(LER_TODOS_REGISTROS_DBF(fcall.buffer))]
    /\ UNCHANGED <<processedDataBytes, statusMessage, task, cipher, parse, harbour>>

NextRecord == LerRegistro \/ LerTodos

SpecRecord == InitRecord /\ [][NextRecord]_vars

\* the header words of the table read, and the first byte of its row i
RecordOffset(buffer, i) == HeaderLength(buffer) + i * RecordLength(buffer)
ValidIndex(buffer, i) == i >= 0 /\ i < RecordCount(buffer)
RowHeld(buffer, i) == ValidIndex(buffer, i) /\ RecordOffset(buffer, i) < Len(buffer)
RowDeleted(buffer, i) == RowHeld(buffer, i) /\ buffer[RecordOffset(buffer, i) + 1] = 42

\* the map of a present record whose fields are all empty
EmptyValue(type) ==
    IF type \in {78, 70, 76, 68} THEN NullValue ELSE [kind |-> "string", chars |-> <<>>]

\* C19: decoding a record whose first byte is 0x2A yields the deleted
\* sentinel (null) and never a field map; decoding a record with any other
\* first byte yields a field map; the sentinel differs from the map of a
\* present record whose fields are all empty.  LER_TODOS_REGISTROS_DBF gives
\* one map per row that is not deleted and none for a deleted row.
C19_DeletedSentinel ==
    fcall.pc = "record"
    => (/\ (fcall.registro.defined /\ RowHeld(fcall.buffer, fcall.recordIndex))
           => IF RowDeleted(fcall.buffer, fcall.recordIndex)
              THEN fcall.registro.value = Null
              ELSE /\ ~fcall.registro.value.isNull
                   /\ fcall.registro.value # Null
                   /\ DOMAIN fcall.registro.value.record
                        = {FieldSpecs[k].name :
                              k \in 1 .. (HeaderLength(fcall.buffer) - 33) \div 32}
        /\ fcall.todos.defined
           => (/\ ~fcall.todos.value.isNull
               /\ Len(fcall.todos.value.records)
                    = Cardinality({i \in 0 .. RecordCount(fcall.buffer) - 1 :
                                      ~RowDeleted(fcall.buffer, i)})))

\* of a table with a deleted blank row and a live blank row, the deleted row
\* was decoded to null and the whole table to the one all-empty map
C19_Witness ==
    /\ fcall.pc = "record"
    /\ fcall.buffer = RecordTable(4, 2, << <<42>> \o BlankFields, <<32>> \o BlankFields >>, <<26>>)
    /\ fcall.recordIndex = 0
    /\ fcall.registro = Defined(Null)
    /\ fcall.todos.defined
    /\ fcall.todos.value.records
         = << [n \in {FieldSpecs[k].name : k \in 1 .. 4} |->
                 EmptyValue(FieldSpecs[CHOOSE k \in 1 .. 4 : FieldSpecs[k].name = n].type)] >>

\* C20: an index outside [0, recordCount) gives no record and an outcome that
\* is not the outcome of a deleted row at a valid index.
C20_IndexOutOfRange ==
    (/\ fcall.pc = "record"
     /\ fcall.registro.defined
     /\ ~ValidIndex(fcall.buffer, fcall.recordIndex))
    => (/\ fcall.registro.value.isNull
        /\ \A i \in 0 .. RecordCount(fcall.buffer) - 1 :
              RowDeleted(fcall.buffer, i)
              => LER_REGISTRO_DBF(fcall.buffer, CHECA_HEADER_DBF(fcall.buffer), i)
                   # fcall.registro.value)

(***************************************************************************)
(* sxcrypt's seed functions on their own: hb_sxInitSeed and hb_sxNextSeed  *)
(***************************************************************************)
\* 16-bit halves with no bit, one bit, the top bit, every bit and mixed bits set
HalfSamples == {0, 1, 255, 4660, 32768, 65535}

InitSeed ==
    /\ processedDataBytes = Undefined
    /\ statusMessage = Undefined
    /\ harbour = NoHarbour
    /\ task = <<>>
    /\ cipher = CipherIdle
    /\ parse = [pc |-> "idle"]
    /\ \E keyVal \in KeySamples, hi \in HalfSamples, lo \in HalfSamples, keyIdx \in 0 .. 6 :
          fcall = [pc |-> "seed", keyVal |-> keyVal, ulSeed |-> <<hi, lo>>,
                   keyIdx |-> keyIdx, initSeed |-> Undefined, nextSeed |-> Undefined]

\* hb_sxInitSeed(keyVal)
CallInitSeed ==
    /\ fcall.pc = "seed"
    /\ ~fcall.initSeed.defined
    /\ fcall' = [fcall EXCEPT !.initSeed = Defined(hb_sxInitSeed(fcall.keyVal))]
    /\ UNCHANGED <<processedDataBytes, statusMessage, task, cipher, parse, harbour>>

\* hb_sxNextSeed(ulSeed, keyVal, keyIdx, uiKeyRef)
CallNextSeed ==
    /\ fcall.pc = "seed"
    /\ ~fcall.nextSeed.defined
    /\ fcall' = [fcall EXCEPT !.nextSeed =
                    Defined(hb_sxNextSeed(fcall.ulSeed, fcall.keyVal, fcall.keyIdx))]
    /\ UNCHANGED <<processedDataBytes, statusMessage, task, cipher, parse, harbour>>

NextSeed == CallInitSeed \/ CallNextSeed

SpecSeed == InitSeed /\ [][NextSeed]_vars

\* unsigned 32-bit arithmetic on <<hi, lo>> pairs, as the procedure of the
\* seed functions is stated: a + b, a * 17 and a + k for a 16-bit k, mod 2^32
U32Add(a, b) ==
    LET lo == a[2] + b[2]
    IN  <<(a[1] + b[1] + lo \div 65536) % 65536, lo % 65536>>

U32Times17(a) ==
    LET lo == a[2] * 17
    IN  <<(a[1] * 17 + lo \div 65536) % 65536, lo % 65536>>

Rot16(a) == <<a[2], a[1]>>

\* seed := (rot16(seed) * 17) mod 2^32, then seed := (seed + LE16(key[i], key[i+1])) mod 2^32,
\* for i = i .. 6
RECURSIVE StatedSeedLoop(_, _, _)
StatedSeedLoop(seed, key, i) ==
    IF i > 6 THEN seed
    ELSE StatedSeedLoop(U32Add(U32Times17(Rot16(seed)), <<0, key[i + 1] + 256 * key[i + 2]>>),
                        key, i + 1)

StatedInitSeed(key) ==
    LET s0   == StatedSeedLoop(<<0, 0>>, key, 0)
        seed == <<s0[1], IF s0[2] % 2 = 1 THEN s0[2] ELSE s0[2] + 1>>
    IN  [ulSeed |-> Rot16(seed), uiKey |-> seed[2]]

\* C21: for every 8-byte key hb_sxInitSeed returns the pair of the stated
\* procedure: seven rounds of seed := rot16(seed) * 17 + LE16(key[i], key[i+1])
\* (mod 2^32), then seed | 1, roundKey = seed & 0xFFFF, returned seed rot16(seed).
C21_InitSeedArithmetic ==
    (fcall.pc = "seed" /\ fcall.initSeed.defined)
    => fcall.initSeed.value = StatedInitSeed(fcall.keyVal)

\* newSeed of the stated keystream step: additions with 32-bit wrap-around
StatedNextSeed(seed) ==
    LET seedLo == seed[2]
        seedHi == seed[1]
        t1     == MulU32(56941, seedLo)
        t2     == U32Add(MulU32(10125, seedLo), <<0, t1[1]>>)
        newLo  == t1[2]
        newHi  == U32Add(MulU32(56941, seedHi), t2)[2]
    IN  <<newHi, newLo>>

\* C22: for every 32-bit seed hb_sxNextSeed returns (newHi << 16) | newLo with
\* t1 = 0xDE6D * seedLo, t2 = 0x278D * seedLo + (t1 >> 16), newLo = t1 & 0xFFFF,
\* newHi = (0xDE6D * seedHi + t2) & 0xFFFF (mod 2^32), whatever the key and keyIdx.
C22_NextSeedArithmetic ==
    (fcall.pc = "seed" /\ fcall.nextSeed.defined)
    => (/\ fcall.nextSeed.value.ulSeed = StatedNextSeed(fcall.ulSeed)
        /\ \A keyVal \in KeySamples, keyIdx \in 0 .. 6 :
              hb_sxNextSeed(fcall.ulSeed, keyVal, keyIdx).ulSeed = fcall.nextSeed.value.ulSeed)

(***************************************************************************)
(* The keystream of a cipher run: key schedule, round keys, positions      *)
(***************************************************************************)
TransformByte(op, c, uiKey) ==
    IF op = "enc" THEN EnCryptByte(c, uiKey) ELSE DeCryptByte(c, uiKey)

\* the 16-bit read of hb_sxNextSeed stays inside the key; key[7] is read only
\* as the high byte of the read at keyIdx = 6
KeyReadInside(key, keyIdx) ==
    /\ keyIdx >= 0
    /\ keyIdx + 1 <= Len(key) - 1
    /\ (keyIdx + 1 = 7) <=> (keyIdx = 6)

\* C23: byte n (from 0) is transformed with the round key in force before the
\* n-th keystream step (byte 0 with hb_sxInitSeed's), the step after byte n is
\* made with keyIdx = n mod 7, keyIdx stays in 0..6, and every 16-bit key read
\* stays inside the 8-byte key.
C23_KeySchedule ==
    /\ [](cipher.pc = "loop" =>
            /\ cipher.st.keyIdx \in 0 .. 6
            /\ cipher.st.keyIdx = (cipher.nPos - 1) % 7
            /\ Len(cipher.key) = 8
            /\ KeyReadInside(cipher.key, cipher.st.keyIdx)
            /\ (cipher.nPos = 1 => cipher.st.uiKey = hb_sxInitSeed(cipher.key).uiKey))
    /\ [][(cipher.pc = "loop" /\ cipher'.pc = "loop" /\ cipher'.nPos = cipher.nPos + 1) =>
            LET step == hb_sxNextSeed(cipher.st.ulSeed, cipher.key, (cipher.nPos - 1) % 7)
            IN  /\ cipher'.dst = Append(cipher.dst,
                                        TransformByte(cipher.op, cipher.src[cipher.nPos],
                                                      cipher.st.uiKey))
                /\ cipher'.st.ulSeed = step.ulSeed
                /\ cipher'.st.uiKey = step.uiKey]_vars

\* the longest run is at byte 8: keyIdx has gone round once and is 1 again
C23_Witness ==
    /\ cipher.pc = "loop"
    /\ Len(cipher.src) = MaxRun
    /\ cipher.nPos = 9
    /\ cipher.st.keyIdx = 1
    /\ Len(cipher.dst) = 8

\* C26: while the cipher runs the round key is odd, so the rotation amount
\* (roundKey & 7) is 1, 3, 5 or 7 and never 0.
C26_RoundKeyOdd ==
    cipher.pc = "loop" =>
        /\ cipher.st.uiKey % 2 = 1
        /\ (cipher.st.uiKey % 8) \in {1, 3, 5, 7}

\* a round key made by hb_sxNextSeed out of an all-zero key, in a long run
C26_Witness ==
    /\ cipher.pc = "loop"
    /\ cipher.key = <<0, 0, 0, 0, 0, 0, 0, 0>>
    /\ cipher.nPos = 8
    /\ cipher.st.uiKey % 2 = 1

\* the cipher state before each byte of a run of MaxRun bytes, from the key alone
RECURSIVE KeyStates(_, _, _)
KeyStates(keyBytes, st, n) ==
    IF n = 0 THEN <<st>>
    ELSE <<st>> \o KeyStates(keyBytes, CipherAdvance(st, keyBytes), n - 1)

KeyStream == [k \in KeySamples |-> KeyStates(k, CipherStart(k), MaxRun)]

Crypt(op, srcBytes, keyBytes) ==
    IF op = "enc" THEN hb_sxEnCrypt(srcBytes, keyBytes) ELSE hb_sxDeCrypt(srcBytes, keyBytes)

\* srcBytes with every byte but the one at position i changed
AllButOne(srcBytes, i) ==
    [j \in 1 .. Len(srcBytes) |-> IF j = i THEN srcBytes[j] ELSE (srcBytes[j] + 85) % 256]

\* C27: the keystream depends on the key and the position only: the state
\* before byte i is a function of the key and i, output byte i is a function of
\* the key, i and input byte i, so inputs that agree at i give outputs that
\* agree at i, and the output of a prefix is the prefix of the output.
C27_KeystreamDataIndependent ==
    cipher.pc = "loop" =>
        /\ cipher.st = KeyStream[cipher.key][cipher.nPos]
        /\ \A i \in 1 .. Len(cipher.dst) :
              cipher.dst[i] = TransformByte(cipher.op, cipher.src[i],
                                            KeyStream[cipher.key][i].uiKey)
        /\ (cipher.stage = 1 /\ cipher.nPos > Len(cipher.src) /\ Len(cipher.src) \in {2, 7, 8}) =>
              /\ \A k \in 0 .. Len(cipher.src) :
                    Crypt(cipher.op, SubSeq(cipher.src, 1, k), cipher.key)
                       = SubSeq(cipher.dst, 1, k)
              /\ \A i \in 1 .. Len(cipher.src) :
                    Crypt(cipher.op, AllButOne(cipher.src, i), cipher.key)[i] = cipher.dst[i]

\* the first call on a run of 8 bytes has transformed all of them
C27_Witness ==
    /\ cipher.pc = "loop"
    /\ cipher.stage = 1
    /\ Len(cipher.src) = 8
    /\ cipher.nPos = 9
    /\ cipher.dst # cipher.src

(***************************************************************************)
(* The two header parsers side by side                                     *)
(***************************************************************************)
\* 1 + the lengths of the fields before field i
RECURSIVE OffsetOf(_, _)
OffsetOf(fields, i) ==
    IF i = 1 THEN 1 ELSE OffsetOf(fields, i - 1) + fields[i - 1].length

\* C24: readDbfMetadata gives the first field offset 1 and every later field
\* the offset of the field before it plus that field's length.
C24_MetadataOffsets ==
    (parse.metadata.defined /\ ~parse.metadata.value.threw)
    => LET fields == parse.metadata.value.fields
       IN  /\ fields # <<>> => fields[1].offset = 1
           /\ \A i \in 2 .. Len(fields) :
                 fields[i].offset = fields[i - 1].offset + fields[i - 1].length
           /\ \A i \in 1 .. Len(fields) : fields[i].offset = OffsetOf(fields, i)

\* two fields parsed: the second one starts after the marker and the first
C24_Witness ==
    /\ parse.metadata.defined
    /\ ~parse.metadata.value.threw
    /\ Len(parse.metadata.value.fields) = 2
    /\ parse.metadata.value.fields[1].length = 1
    /\ parse.metadata.value.fields[2].offset = 2

BothAccept ==
    /\ parse.metadata.defined
    /\ ~parse.metadata.value.threw
    /\ parse.checa.defined
    /\ ~parse.checa.value.isNull

\* C28: on every buffer both parsers accept, readDbfMetadata and
\* CHECA_HEADER_DBF give the same recordCount, headerLength and recordLength
\* and the same fields (name, type, length, decimalPlaces), the offsets of
\* readDbfMetadata being those of PROCESSA_CAMPOS_DBF plus 1.
C28_ParsersAgree ==
    BothAccept
    => LET md == parse.metadata.value
           ch == parse.checa.value
       IN  /\ md.header.numRecords = ch.recordCount
           /\ md.header.headerLength = ch.headerSize
           /\ md.header.recordLength = ch.recordSize
           /\ Len(md.fields) = Len(ch.fields)
           /\ \A i \in 1 .. Len(md.fields) :
                 /\ md.fields[i].name = ch.fields[i].name
                 /\ md.fields[i].type = ch.fields[i].type
                 /\ md.fields[i].length = ch.fields[i].length
                 /\ md.fields[i].decimalPlaces = ch.fields[i].decimalPlaces
                 /\ md.fields[i].offset = ch.fields[i].offset + 1

(***************************************************************************)
(* Date fields of a record                                                 *)
(***************************************************************************)
\* the bytes the buffer holds of field D (the fourth field, 8 bytes) in row i
\* of a four-field table
RawDate(buffer, i) ==
    LET at == RecordOffset(buffer, i) + 1 + FieldsWidth(3)
    IN  SubSeq(buffer, Min(at, Len(buffer)) + 1, Min(at + 8, Len(buffer)))

AllDigits(bytes) == \A k \in 1 .. Len(bytes) : bytes[k] \in 48 .. 57

DigitsValue(bytes, from, to) ==
    DigitsPrefix(SubSeq(bytes, from, to), 0, 0).value

\* C25: a D field decodes to a calendar date (year, month, day) exactly when
\* its raw content is 8 ASCII digits YYYYMMDD; content of another length or
\* with a character that is no digit decodes to none (null).
C25_DateDigitsOnly ==
    (/\ fcall.pc = "record"
     /\ fcall.registro.defined
     /\ ~fcall.registro.value.isNull
     /\ <<68>> \in DOMAIN fcall.registro.value.record)
    => LET raw   == RawDate(fcall.buffer, fcall.recordIndex)
           value == fcall.registro.value.record[<<68>>]
       IN  IF Len(raw) = 8 /\ AllDigits(raw)
           THEN /\ value.kind = "date"
                /\ ~value.invalid
                /\ value.year.value = DigitsValue(raw, 1, 4)
                /\ value.month.value + 1 = DigitsValue(raw, 5, 6)
                /\ value.day.value = DigitsValue(raw, 7, 8)
           ELSE value = NullValue

(***************************************************************************)
(* HarbourSystemIntegration (detecta_company.ts) over CompanyDetector.     *)
(* The machine the detector looks at is `env`: the company named in the    *)
(* title of a cmd window, the company of a cmd process, the company whose  *)
(* DBF files were touched last, and what each company directory holds.     *)
(* It changes on its own between any two steps.  An async method is one    *)
(* action per stretch between awaits; an awaited detector call settles in  *)
(* one action (it reads env, never the object) and the method resumes in   *)
(* a later one.                                                            *)
(***************************************************************************)
Codes == {"CE63C", "AB12D"}
NoCode == "none"

\* a CompanyInfo; detectedBy stands for the optional fields the three
\* strategies fill in differently (processId, windowTitle)
CompanyInfo(code, detectedBy) ==
    [isNull |-> FALSE, code |-> code, fullPath |-> <<"VERATUAL", code>>,
     detectedBy |-> detectedBy]

Machine(window, process, recent, dirCE63C, dirAB12D) ==
    [window |-> window, process |-> process, recent |-> recent,
     dir |-> [c \in Codes |-> IF c = "CE63C" THEN dirCE63C ELSE dirAB12D]]

\* a directory is "missing", "empty" (no .dbf file in it) or holds "tables"
EnvSamples ==
    { Machine(NoCode, NoCode, "CE63C", "missing", "missing"),
      Machine("CE63C", NoCode, "CE63C", "tables", "missing"),
      Machine("AB12D", NoCode, "CE63C", "tables", "missing"),
      Machine(NoCode, "AB12D", "AB12D", "tables", "tables"),
      Machine(NoCode, NoCode, "CE63C", "tables", "empty"),
      Machine("CE63C", "AB12D", "AB12D", "empty", "tables") }

detectActiveCompanyByWindow(env) ==
    IF env.window = NoCode THEN Null ELSE CompanyInfo(env.window, "window")

detectActiveCompanyByProcess(env) ==
    IF env.process = NoCode THEN Null ELSE CompanyInfo(env.process, "process")

\* the company directory whose DBF files were used last, none without DBF files
detectActiveCompanyByFileAccess(env) ==
    LET withFiles == {c \in Codes : env.dir[c] = "tables"}
    IN  IF withFiles = {} THEN Null
        ELSE IF env.recent \in withFiles THEN CompanyInfo(env.recent, "file")
        ELSE CompanyInfo(CHOOSE c \in withFiles : TRUE, "file")

detectActiveCompany(env) ==
    IF ~detectActiveCompanyByWindow(env).isNull THEN detectActiveCompanyByWindow(env)
    ELSE IF ~detectActiveCompanyByProcess(env).isNull THEN detectActiveCompanyByProcess(env)
    ELSE detectActiveCompanyByFileAccess(env)

validateCompany(env, companyCode) == env.dir[companyCode] = "tables"

\* table names as a base and what follows it
TableNames == { [base |-> "CLIENTES", ext |-> e] : e \in {"", ".dbf"} }

\* getTablePath(tableName): throws without a current company
getTablePath(currentCompany, tableName) ==
    IF currentCompany.isNull THEN [threw |-> TRUE]
    ELSE [threw |-> FALSE,
          path  |-> <<currentCompany.fullPath, tableName.base,
                      IF tableName.ext \in {".dbf", ".DBF"} THEN "" ELSE tableName.ext,
                      ".DBF">>]

\* listAvailableTables(): throws without a current company; the names of the
\* directory's .dbf files otherwise, none when it cannot be read
listAvailableTables(currentCompany, env) ==
    IF currentCompany.isNull THEN [threw |-> TRUE]
    ELSE [threw  |-> FALSE,
          tables |-> IF env.dir[currentCompany.code] = "tables" THEN {"CLIENTES"} ELSE {}]

getCurrentCompanyInfo(currentCompany) == currentCompany

IdleCall == [pc |-> "idle", result |-> Null, code |-> NoCode, isValid |-> FALSE]

\* where a tick in flight can be: awaiting the detector, or about to resume
\* with what the detector gave
TickStates ==
    {[pc |-> "detecting", newCompany |-> Null]}
        \cup {[pc |-> "resolved", newCompany |-> detectActiveCompany(env)] : env \in EnvSamples}

RECURSIVE SumOver(_, _)
SumOver(f, S) ==
    IF S = {} THEN 0
    ELSE LET x == CHOOSE y \in S : TRUE IN f[x] + SumOver(f, S \ {x})

\* how many ticks are in flight (ticks counts them by where they are)
InFlight(ticks) == SumOver(ticks, TickStates)

\* the object right after `new HarbourSystemIntegration()`
InitHarbour ==
    /\ processedDataBytes = Undefined
    /\ statusMessage = Undefined
    /\ task = <<>>
    /\ cipher = CipherIdle
    /\ parse = [pc |-> "idle"]
    /\ fcall = [pc |-> "idle"]
    /\ \E env \in EnvSamples :
          harbour = [pc             |-> "harbour",
                     currentCompany |-> Null,
                     env            |-> env,
                     init           |-> IdleCall,
                     returned       |-> Undefined,
                     monitoring     |-> FALSE,
                     ticks          |-> [t \in TickStates |-> 0],
                     lastTick       |-> Undefined,
                     query          |-> Undefined]

\* the object one step later: what the last step observed is forgotten
Quiet == [harbour EXCEPT !.lastTick = Undefined, !.query = Undefined]

Others == <<processedDataBytes, statusMessage, task, cipher, parse, fcall>>

\* the machine changes
EnvChange ==
    /\ harbour.pc = "harbour"
    /\ \E env \in EnvSamples \ {harbour.env} :
          harbour' = [Quiet EXCEPT !.env = env]
    /\ UNCHANGED Others

\* initialize(): up to the await of detectActiveCompany()
Initialize ==
    /\ harbour.pc = "harbour"
    /\ harbour.init.pc = "idle"
    /\ harbour' = [Quiet EXCEPT !.init = [IdleCall EXCEPT !.pc = "detecting"]]
    /\ UNCHANGED Others

\* refreshActiveCompany(): return await this.initialize()
RefreshActiveCompany ==
    /\ harbour.pc = "harbour"
    /\ harbour.init.pc = "idle"
    /\ harbour' = [Quiet EXCEPT !.init = [IdleCall EXCEPT !.pc = "detecting"]]
    /\ UNCHANGED Others

\* detectActiveCompany() settles
InitializeDetects ==
    /\ harbour.pc = "harbour"
    /\ harbour.init.pc = "detecting"
    /\ harbour' = [Quiet EXCEPT !.init.pc = "detected",
                                !.init.result = detectActiveCompany(harbour.env)]
    /\ UNCHANGED Others

\* this.currentCompany = <the company detected>; return false without one,
\* else up to the await of validateCompany(this.currentCompany.code)
InitializeAfterDetect ==
    /\ harbour.pc = "harbour"
    /\ harbour.init.pc = "detected"
    /\ IF harbour.init.result.isNull
       THEN harbour' = [Quiet EXCEPT !.currentCompany = harbour.init.result,
                                     !.returned = Defined(FALSE),
                                     !.init = IdleCall]
       ELSE harbour' = [Quiet EXCEPT !.currentCompany = harbour.init.result,
                                     !.init.pc = "validating",
                                     !.init.code = harbour.init.result.code]
    /\ UNCHANGED Others

\* validateCompany(code) settles
InitializeValidates ==
    /\ harbour.pc = "harbour"
    /\ harbour.init.pc = "validating"
    /\ harbour' = [Quiet EXCEPT !.init.pc = "validated",
                                !.init.isValid = validateCompany(harbour.env, harbour.init.code)]
    /\ UNCHANGED Others

\* if (!isValid) return false; return true
InitializeAfterValidate ==
    /\ harbour.pc = "harbour"
    /\ harbour.init.pc = "validated"
    /\ harbour' = [Quiet EXCEPT !.returned = Defined(harbour.init.isValid),
                                !.init = IdleCall]
    /\ UNCHANGED Others

\* getTablePath(tableName), listAvailableTables() and getCurrentCompanyInfo()
\* called one after the other
Query ==
    /\ harbour.pc = "harbour"
    /\ \E tableName \in TableNames :
          harbour' = [Quiet EXCEPT !.query =
                         Defined([tablePath |-> getTablePath(harbour.currentCompany, tableName),
                                  tables    |-> listAvailableTables(harbour.currentCompany,
                                                                    harbour.env),
                                  info      |-> getCurrentCompanyInfo(harbour.currentCompany)])]
    /\ UNCHANGED Others

\* startCompanyMonitoring(intervalMs): setInterval
StartMonitoring ==
    /\ harbour.pc = "harbour"
    /\ ~harbour.monitoring
    /\ harbour' = [Quiet EXCEPT !.monitoring = TRUE]
    /\ UNCHANGED Others

\* the interval fires: the callback runs up to the await of detectActiveCompany()
TickFires ==
    /\ harbour.pc = "harbour"
    /\ harbour.monitoring
    /\ InFlight(harbour.ticks) < MaxTicks
    /\ harbour' = [Quiet EXCEPT !.ticks[[pc |-> "detecting", newCompany |-> Null]] = @ + 1]
    /\ UNCHANGED Others

\* detectActiveCompany() of a tick settles
TickDetects ==
    /\ harbour.pc = "harbour"
    /\ harbour.ticks[[pc |-> "detecting", newCompany |-> Null]] > 0
    /\ harbour' = [Quiet EXCEPT
          !.ticks[[pc |-> "detecting", newCompany |-> Null]] = @ - 1,
          !.ticks[[pc |-> "resolved", newCompany |-> detectActiveCompany(harbour.env)]] = @ + 1]
    /\ UNCHANGED Others

\* a tick that takes every company detected, whatever its code
TickResumeIgnoresCode ==
    /\ harbour.pc = "harbour"
    /\ \E tick \in TickStates :
          /\ tick.pc = "resolved"
          /\ harbour.ticks[tick] > 0
          /\ LET newCompany == tick.newCompany
                 changed    == ~newCompany.isNull
             IN  harbour' = [Quiet EXCEPT
                    !.ticks[tick] = @ - 1,
                    !.currentCompany = IF changed THEN newCompany ELSE @,
                    !.lastTick = Defined([before     |-> harbour.currentCompany,
                                          newCompany |-> newCompany,
                                          after      |-> IF changed THEN newCompany
                                                         ELSE harbour.currentCompany,
                                          onCompanyChanged |->
                                              IF changed THEN <<newCompany>> ELSE <<>>])]
    /\ UNCHANGED Others

\* the callback resumes: if (newCompany && newCompany.code !== this.currentCompany?.code)
\* { this.currentCompany = newCompany; this.onCompanyChanged(newCompany); }
\* lastTick keeps what this tick saw and did, onCompanyChanged the arguments of
\* its calls of that method
TickResume ==
    /\ harbour.pc = "harbour"
    /\ \E tick \in TickStates :
          /\ tick.pc = "resolved"
          /\ harbour.ticks[tick] > 0
          /\ LET newCompany == tick.newCompany
                 changed    == /\ ~newCompany.isNull
                               /\ \/ harbour.currentCompany.isNull
                                  \/ newCompany.code # harbour.currentCompany.code
             IN  harbour' = [Quiet EXCEPT
                    !.ticks[tick] = @ - 1,
                    !.currentCompany = IF changed THEN newCompany ELSE @,
                    !.lastTick = Defined([before     |-> harbour.currentCompany,
                                          newCompany |-> newCompany,
                                          after      |-> IF changed THEN newCompany
                                                         ELSE harbour.currentCompany,
                                          onCompanyChanged |->
                                              IF changed THEN <<newCompany>> ELSE <<>>])]
    /\ UNCHANGED Others

NextHarbour ==
    \/ EnvChange
    \/ Initialize
    \/ RefreshActiveCompany
    \/ InitializeDetects
    \/ InitializeAfterDetect
    \/ InitializeValidates
    \/ InitializeAfterValidate
    \/ Query
    \/ StartMonitoring
    \/ TickFires
    \/ TickDetects
    \/ TickResume

SpecHarbour == InitHarbour /\ [][NextHarbour]_vars

\* C29: after any sequence of initialize() / refreshActiveCompany() calls (no
\* call in flight, monitoring never started), getTablePath and
\* listAvailableTables succeed only if the most recent initialize() returned
\* true; otherwise they throw and getCurrentCompanyInfo() returns null.
C29_UsableOnlyAfterInit ==
    (/\ harbour.pc = "harbour"
     /\ harbour.query.defined
     /\ harbour.init.pc = "idle"
     /\ ~harbour.monitoring)
    => LET q  == harbour.query.value
           ok == harbour.returned = Defined(TRUE)
       IN  /\ (~q.tablePath.threw \/ ~q.tables.threw) => ok
           /\ ~ok => (q.tablePath.threw /\ q.tables.threw /\ q.info = Null)

Code(company) == IF company.isNull THEN NoCode ELSE company.code

\* C30: whatever ticks overlap, a tick changes currentCompany only when
\* detection gave a company whose code differs from the current code at the
\* moment of the update, and then calls onCompanyChanged exactly once, with
\* that company; a tick that detected nothing or the current code leaves
\* currentCompany as it was; no tick sets currentCompany back to null.
C30_TickUpdates ==
    (harbour.pc = "harbour" /\ harbour.lastTick.defined)
    => LET t == harbour.lastTick.value
       IN  /\ harbour.currentCompany = t.after
           /\ IF ~t.newCompany.isNull /\ Code(t.newCompany) # Code(t.before)
              THEN t.after = t.newCompany /\ t.onCompanyChanged = <<t.newCompany>>
              ELSE t.after = t.before /\ t.onCompanyChanged = <<>>
           /\ ~t.before.isNull => ~t.after.isNull

\* a tick has replaced one company by another while another tick, which
\* detected that same new company, is still to resume
C30_Witness ==
    /\ harbour.pc = "harbour"
    /\ harbour.lastTick.defined
    /\ ~harbour.lastTick.value.before.isNull
    /\ ~harbour.lastTick.value.newCompany.isNull
    /\ harbour.lastTick.value.newCompany.code # harbour.lastTick.value.before.code
    /\ harbour.lastTick.value.onCompanyChanged = <<harbour.currentCompany>>
    /\ harbour.ticks[[pc |-> "resolved", newCompany |-> harbour.currentCompany]] > 0
====
